---- MODULE Spec2Model ----
(***************************************************************************)
(* A model of the kubectl-kaito plugin: the get-endpoint command (readiness *)
(* gate, endpoint enumeration, endpoint selection), the chat command        *)
(* (endpoint resolution and the interactive session loop) and the deploy    *)
(* command (validation, ConfigMap creation, Workspace creation).            *)
(*                                                                          *)
(* Strings that the code assembles or takes apart (URLs, host names, input  *)
(* lines) are sequences of string pieces, so that Sprintf is concatenation  *)
(* and TrimPrefix/TrimSuffix/TrimSpace/Fields act on the pieces.            *)
(***************************************************************************)
EXTENDS Integers, Sequences, FiniteSets, TLC

VARIABLES
    workspaces,     \* cluster: the Workspace custom resources (a set of objects)
    services,       \* cluster: the core Services (a set of objects)
    configMaps,     \* cluster: the core ConfigMaps (a set of objects)
    dnsNames,       \* environment: the names net.LookupHost resolves
    restConfig,     \* environment: what configFlags.ToRESTConfig() returns
    kubeNamespace,  \* environment: what ToRawKubeConfigLoader().Namespace() returns
    clientFail,     \* environment: which client constructor fails, if any
    apiFail,        \* environment: the API requests ("verb.kind") the server refuses
    files,          \* environment: the local files, by path
    chatOptions,    \* chat: the ChatOptions struct (flags, then /set changes)
    session,        \* chat: where the session loop stands, its endpoint and model name
    requests,       \* chat: the requests POSTed to the inference endpoint, in order
    stderr,         \* the lines the last step wrote on standard error
    op,             \* the operation that ran last
    opts,           \* the options (or arguments) it ran with
    ret,            \* what it returned
    stdout,         \* the lines it printed on standard output
    calls           \* the network calls it issued, in order

vars == <<workspaces, services, configMaps, dnsNames, restConfig, kubeNamespace,
          clientFail, apiFail, files, chatOptions, session, requests, stderr,
          op, opts, ret, stdout, calls>>

\* The cluster and the environment, which no command of this tool other than
\* deploy changes.
envVars == <<workspaces, services, configMaps, dnsNames, restConfig, kubeNamespace,
             clientFail, apiFail, files>>
chatVars == <<chatOptions, session, requests, stderr>>

-----------------------------------------------------------------------------
(* Bounds of the model. *)

MaxConds == 3       \* longest status.conditions list handed to the Readiness Evaluator
MaxGateConds == 2   \* longest status.conditions list of a Workspace in the cluster
MaxIngress == 2     \* longest status.loadBalancer.ingress list
MaxEndpoints == 3   \* longest list handed to the endpoint selector
MaxLines == 2       \* most lines read in one chat session
MaxModels == 2      \* most entries of a fetched supported-model list

-----------------------------------------------------------------------------
(* Go values. *)

\* A Go error value: nil, or an error with its message.
Nil == [isErr |-> FALSE, msg |-> ""]
Err(m) == [isErr |-> TRUE, msg |-> m]
\* An error whose message names one argument.
Errorf(m, arg) == [isErr |-> TRUE, msg |-> m, arg |-> arg]

\* The result of a type assertion v.(string): ok with the string, or not ok.
\* A missing map key and a non-string value both give notStr.
Str(s) == [isStr |-> TRUE, s |-> s]
NotStr == [isStr |-> FALSE, s |-> ""]

Last(q) == q[Len(q)]
Front(q) == SubSeq(q, 1, Len(q) - 1)

\* All sequences over S of length at most n.
SeqUpTo(S, n) == UNION {[1..k -> S] : k \in 0..n}

\* strings.TrimPrefix and strings.TrimSuffix on a string made of pieces.
TrimPrefix(s, prefix) == IF Len(s) > 0 /\ Head(s) = prefix THEN Tail(s) ELSE s
TrimSuffix(s, suffix) == IF Len(s) > 0 /\ Last(s) = suffix THEN Front(s) ELSE s

-----------------------------------------------------------------------------
(* The cluster, as the Kubernetes clients see it. *)

\* client.Get(namespace, name): a request in apiFail fails whatever the
\* cluster holds; otherwise it fails iff the object does not exist.
Exists(store, namespace, name) ==
    \E x \in store : x.namespace = namespace /\ x.name = name
Lookup(store, namespace, name) ==
    CHOOSE x \in store : x.namespace = namespace /\ x.name = name
GetFails(request, store, namespace, name) ==
    request \in apiFail \/ ~Exists(store, namespace, name)

\* A variant in which a name that is taken is an error like any other.
CreateOutcomeNoConflict(request, store, namespace, name) ==
    IF request \in apiFail THEN "error"
    ELSE IF Exists(store, namespace, name) THEN "error"
    ELSE "created"

\* client.Create(object): refused when the request is in apiFail, else
\* AlreadyExists when an object of that name exists, else created.
CreateOutcome(request, store, namespace, name) ==
    IF request \in apiFail THEN "error"
    ELSE IF Exists(store, namespace, name) THEN "alreadyExists"
    ELSE "created"

\* client.Update(object): refused when the request is in apiFail or the
\* object does not exist, else the stored object is replaced.
UpdateFails(request, store, namespace, name) ==
    request \in apiFail \/ ~Exists(store, namespace, name)
\* A variant of the replacement that keeps the stored object.
ReplaceNothing(store, object) == store
Replace(store, object) ==
    {x \in store : ~(x.namespace = object.namespace /\ x.name = object.name)}
        \cup {object}

\* A Workspace as the API server returns it: its status (absent, or a value
\* that is a map or not, with a conditions field that is a list or not) and
\* the rest of the object.
EmptyMap == <<>>
WorkspaceObject(namespace, name, hasStatus, status) ==
    [namespace |-> namespace, name |-> name, hasStatus |-> hasStatus, status |-> status,
     Object |-> EmptyMap]
NoStatus == [kind |-> "scalar", hasConditions |-> FALSE, condIsList |-> FALSE,
             conditions |-> <<>>]

\* net.LookupHost(name): succeeds iff the environment resolves that name.
LookupHost(name) == name \in dnsNames

\* The namespace defaulting at the head of every run():
\* the flag, else the kubeconfig's namespace, else "default".
resolveNamespace(namespace) ==
    IF namespace # "" THEN namespace
    ELSE IF ~kubeNamespace.err /\ kubeNamespace.ns # "" THEN kubeNamespace.ns
    ELSE "default"

-----------------------------------------------------------------------------
(* get-endpoint: the readiness gate (Readiness Evaluator). *)

\* The loop of isWorkspaceReady over the conditions list, carrying the two
\* flags.  An entry that is not a map, or whose type or status is not a
\* string, is skipped.
RECURSIVE readyLoop(_, _, _)
readyLoop(conditionsList, resourceReady, inferenceReady) ==
    IF conditionsList = <<>> THEN resourceReady /\ inferenceReady
    ELSE
        LET condition == Head(conditionsList)
            rest == Tail(conditionsList)
        IN  IF ~condition.isMap THEN readyLoop(rest, resourceReady, inferenceReady)
            ELSE IF ~condition.type.isStr THEN readyLoop(rest, resourceReady, inferenceReady)
            ELSE IF ~condition.status.isStr THEN readyLoop(rest, resourceReady, inferenceReady)
            ELSE IF condition.type.s = "ResourceReady"
                 THEN readyLoop(rest, resourceReady \/ condition.status.s = "True", inferenceReady)
            ELSE IF condition.type.s = "InferenceReady"
                 THEN readyLoop(rest, resourceReady, inferenceReady \/ condition.status.s = "True")
            ELSE readyLoop(rest, resourceReady, inferenceReady)

\* A variant that is satisfied by either flag.
isWorkspaceReadyEither(status) ==
    /\ status.kind = "map" /\ status.hasConditions /\ status.condIsList
    /\ \/ readyLoop(status.conditions, TRUE, FALSE)
       \/ readyLoop(status.conditions, FALSE, TRUE)

isWorkspaceReady(status) ==
    IF status.kind # "map" THEN FALSE
    ELSE IF ~status.hasConditions THEN FALSE
    ELSE IF ~status.condIsList THEN FALSE
    ELSE readyLoop(status.conditions, FALSE, FALSE)

\* status: the loop of extractConditionStatuses, carrying the three texts.
\* A failed type assertion leaves "" for the type or the status; an entry
\* that is not a map is skipped.  The result is
\* [resourceReady, inferenceReady, workspaceReady].
RECURSIVE statusLoop(_, _, _, _)
statusLoop(condList, resourceReady, inferenceReady, workspaceReady) ==
    IF condList = <<>>
    THEN [resourceReady |-> resourceReady, inferenceReady |-> inferenceReady,
          workspaceReady |-> workspaceReady]
    ELSE
        LET condition == Head(condList)
            rest == Tail(condList)
            condType == IF condition.type.isStr THEN condition.type.s ELSE ""
            condStatus == IF condition.status.isStr THEN condition.status.s ELSE ""
        IN  IF ~condition.isMap
            THEN statusLoop(rest, resourceReady, inferenceReady, workspaceReady)
            ELSE IF condType = "ResourceReady"
            THEN statusLoop(rest, condStatus, inferenceReady, workspaceReady)
            ELSE IF condType = "InferenceReady"
            THEN statusLoop(rest, resourceReady, condStatus, workspaceReady)
            ELSE IF condType = "WorkspaceSucceeded"
            THEN statusLoop(rest, resourceReady, inferenceReady, condStatus)
            ELSE statusLoop(rest, resourceReady, inferenceReady, workspaceReady)

extractConditionStatuses(condList) == statusLoop(condList, "Unknown", "Unknown", "Unknown")

\* printConditionStatuses: nothing is printed unless status.conditions is a
\* list.  The result is [printed, statuses].
printConditionStatuses(statusMap) ==
    LET none == [resourceReady |-> "", inferenceReady |-> "", workspaceReady |-> ""]
    IN  IF ~statusMap.hasConditions THEN [printed |-> FALSE, statuses |-> none]
        ELSE IF ~statusMap.condIsList THEN [printed |-> FALSE, statuses |-> none]
        ELSE [printed |-> TRUE, statuses |-> extractConditionStatuses(statusMap.conditions)]

\* checkWorkspaceReady: one GET of the Workspace, then the three checks.
checkWorkspaceReady(o) ==
    IF GetFails("get.workspaces", workspaces, o.Namespace, o.WorkspaceName)
    THEN Err("failed to get workspace")
    ELSE LET workspace == Lookup(workspaces, o.Namespace, o.WorkspaceName)
         IN  IF ~workspace.hasStatus THEN Err("workspace has no status information")
             ELSE IF ~isWorkspaceReady(workspace.status) THEN Err("workspace is not ready yet")
             ELSE Nil

-----------------------------------------------------------------------------
(* get-endpoint: the Endpoint Enumerator. *)

EndpointInfo(url, type, access, description) ==
    [URL |-> url, Type |-> type, Access |-> access, Description |-> description]

\* "" in Go is the empty string of pieces here.
NoURL == <<>>

\* A variant that inspects only the first ingress entry.
ingressLoopFirstOnly(ingressList) ==
    IF ingressList = <<>> THEN NoURL
    ELSE LET ingress == Head(ingressList)
         IN  IF ingress.IP # "" THEN <<"http://", ingress.IP, ":80">>
             ELSE IF ingress.Hostname # "" THEN <<"http://", ingress.Hostname, ":80">>
             ELSE NoURL

\* The loop of getLoadBalancerEndpoint over status.loadBalancer.ingress.
RECURSIVE ingressLoop(_)
ingressLoop(ingressList) ==
    IF ingressList = <<>> THEN NoURL
    ELSE LET ingress == Head(ingressList)
             endpoint == IF ingress.IP # "" THEN <<"http://", ingress.IP, ":80">>
                         ELSE IF ingress.Hostname # "" THEN <<"http://", ingress.Hostname, ":80">>
                         ELSE NoURL
         IN  IF endpoint # NoURL THEN endpoint ELSE ingressLoop(Tail(ingressList))

\* A variant that scans the ingress list of a Service of any type.
getLoadBalancerEndpointAnyType(svc) == ingressLoop(svc.Ingress)

getLoadBalancerEndpoint(svc) ==
    IF svc.Type # "LoadBalancer" THEN NoURL
    ELSE ingressLoop(svc.Ingress)

\* fmt.Sprintf("http://%s.%s.svc.cluster.local:80", workspace, namespace)
clusterURL(workspaceName, namespace) ==
    <<"http://", workspaceName, ".", namespace, ".svc.cluster.local", ":80">>

getClusterInternalEndpoint(svc, o) ==
    IF svc.ClusterIP = "" \/ svc.ClusterIP = "None" THEN NoURL
    ELSE clusterURL(o.WorkspaceName, o.Namespace)

\* A variant that keeps the API-server base as configured.
getAPIProxyEndpointUntrimmed(o) ==
    IF restConfig.err THEN [err |-> Err("failed to get REST config"), url |-> NoURL]
    ELSE LET namespace == IF o.Namespace = "" THEN "default" ELSE o.Namespace
         IN  [err |-> Nil,
              url |-> restConfig.host \o
                      <<"/api/v1/namespaces/", namespace, "/services/",
                        o.WorkspaceName, ":80", "/proxy">>]

\* The result is [err, url].
getAPIProxyEndpoint(o) ==
    IF restConfig.err THEN [err |-> Err("failed to get REST config"), url |-> NoURL]
    ELSE LET namespace == IF o.Namespace = "" THEN "default" ELSE o.Namespace
         IN  [err |-> Nil,
              url |-> TrimSuffix(restConfig.host, "/") \o
                      <<"/api/v1/namespaces/", namespace, "/services/",
                        o.WorkspaceName, ":80", "/proxy">>]

\* The name handed to the resolver is the endpoint less its scheme.
canAccessClusterEndpoint(endpoint) ==
    LookupHost(TrimPrefix(TrimPrefix(endpoint, "http://"), "https://"))

\* A variant that returns whatever list was collected.
finishEndpointsUnchecked(endpoints, netCalls) ==
    [endpoints |-> endpoints, err |-> Nil, calls |-> netCalls]

\* The tail of getAllEndpoints: an empty list is an error.
finishEndpoints(endpoints, netCalls) ==
    IF Len(endpoints) = 0
    THEN [endpoints |-> <<>>, err |-> Err("no accessible endpoints found"),
          calls |-> netCalls]
    ELSE [endpoints |-> endpoints, err |-> Nil, calls |-> netCalls]

\* The result is [endpoints, err, calls]; endpoints is <<>> when err is set.
getAllEndpoints(o) ==
    IF GetFails("get.services", services, o.Namespace, o.WorkspaceName)
    THEN [endpoints |-> <<>>, err |-> Err("failed to get service"),
          calls |-> <<"k8s.get.services">>]
    ELSE
        LET svc == Lookup(services, o.Namespace, o.WorkspaceName)
            lbEndpoint == getLoadBalancerEndpoint(svc)
            e1 == IF lbEndpoint # NoURL
                  THEN <<EndpointInfo(lbEndpoint, "LoadBalancer", "external",
                                      "Direct public access via LoadBalancer")>>
                  ELSE <<>>
            apiProxy == getAPIProxyEndpoint(o)
            e2 == IF apiProxy.err.isErr THEN e1
                  ELSE Append(e1, EndpointInfo(apiProxy.url, "APIProxy", "cluster",
                                               "Kubernetes API proxy"))
            clusterEndpoint == getClusterInternalEndpoint(svc, o)
            probed == clusterEndpoint # NoURL
            e3 == IF probed /\ canAccessClusterEndpoint(clusterEndpoint)
                  THEN Append(e2, EndpointInfo(clusterEndpoint, "ClusterIP", "internal",
                                               "Direct cluster-internal access"))
                  ELSE e2
            netCalls == <<"k8s.get.services">> \o (IF probed THEN <<"dns.lookup">> ELSE <<>>)
        IN  finishEndpoints(e3, netCalls)


-----------------------------------------------------------------------------
(* get-endpoint: the Endpoint Selector and the command. *)

\* One printed line: a URL, or the JSON document of --format json.
URLLine(url) == [kind |-> "url", url |-> url, doc |-> <<>>]
JSONLine(workspace, namespace, endpoints) ==
    [kind |-> "json", url |-> NoURL,
     doc |-> <<workspace, namespace, endpoints>>]

\* The loop "for _, ep := range endpoints" of the url format: it stops at the
\* first entry whose Access is "external".
RECURSIVE externalLoop(_)
externalLoop(endpoints) ==
    IF endpoints = <<>> THEN [found |-> FALSE, url |-> NoURL]
    ELSE IF Head(endpoints).Access = "external"
    THEN [found |-> TRUE, url |-> Head(endpoints).URL]
    ELSE externalLoop(Tail(endpoints))

\* A variant that always prints the first entry.
selectEndpointFirst(endpoints) ==
    IF Len(endpoints) = 0
    THEN [err |-> Err("no endpoints available"), stdout |-> <<>>]
    ELSE [err |-> Nil, stdout |-> <<URLLine(endpoints[1].URL)>>]

\* The url-format branch of run.  The result is [err, stdout].
selectEndpoint(endpoints) ==
    IF Len(endpoints) = 0
    THEN [err |-> Err("no endpoints available"), stdout |-> <<>>]
    ELSE LET ext == externalLoop(endpoints)
         IN  IF ext.found
             THEN [err |-> Nil, stdout |-> <<URLLine(ext.url)>>]
             ELSE [err |-> Nil, stdout |-> <<URLLine(endpoints[1].URL)>>]

GetEndpointOptions_validate(o) ==
    IF o.WorkspaceName = "" THEN Err("workspace name is required")
    ELSE IF o.Format # "url" /\ o.Format # "json" THEN Err("format must be 'url' or 'json'")
    ELSE Nil

\* What run returns when checkWorkspaceReady reports err2 # nil: the
\* statement is "return err", and err is the variable last assigned by
\* kubernetes.NewForConfig, which is nil on this path.
gateFailureReturn(err, err2) == err

\* The result is [err, value, stdout, calls]; value is the endpoint list.
GetEndpointOptions_run(o0) ==
    LET o == [o0 EXCEPT !.Namespace = resolveNamespace(o0.Namespace)]
        none == [err |-> Nil, value |-> <<>>, stdout |-> <<>>, calls |-> <<>>]
    IN  IF restConfig.err
        THEN [none EXCEPT !.err = Err("failed to get REST config")]
        ELSE IF clientFail = "dynamic"
        THEN [none EXCEPT !.err = Err("failed to create dynamic client")]
        ELSE IF clientFail = "kubernetes"
        THEN [none EXCEPT !.err = Err("failed to create kubernetes client")]
        ELSE
            LET err == Nil
                err2 == checkWorkspaceReady(o)
                all == getAllEndpoints(o)
                sel == selectEndpoint(all.endpoints)
                k8s == <<"k8s.get.workspaces">>
            IN  IF err2.isErr
                THEN [none EXCEPT !.err = gateFailureReturn(err, err2), !.calls = k8s]
                ELSE IF all.err.isErr
                THEN [none EXCEPT !.err = all.err, !.calls = k8s \o all.calls]
                ELSE IF o.Format = "json"
                THEN [err |-> Nil, value |-> all.endpoints,
                      stdout |-> <<JSONLine(o.WorkspaceName, o.Namespace, all.endpoints)>>,
                      calls |-> k8s \o all.calls]
                ELSE [err |-> sel.err, value |-> all.endpoints,
                      stdout |-> sel.stdout, calls |-> k8s \o all.calls]

\* A variant that runs before it reports the validation error.
GetEndpointCmdRunFirst(o) ==
    LET v == GetEndpointOptions_validate(o)
        r == GetEndpointOptions_run(o)
    IN  IF v.isErr
        THEN [stage |-> "validate", err |-> v, value |-> <<>>, stdout |-> <<>>,
              calls |-> r.calls]
        ELSE [stage |-> "run", err |-> r.err, value |-> r.value, stdout |-> r.stdout,
              calls |-> r.calls]
\* RunE of the get-endpoint command: validate, then run.  stage is the
\* step that RunE returned from.
GetEndpointCmd(o) ==
    LET v == GetEndpointOptions_validate(o)
        r == GetEndpointOptions_run(o)
    IN  IF v.isErr
        THEN [stage |-> "validate", err |-> v, value |-> <<>>, stdout |-> <<>>,
              calls |-> <<>>]
        ELSE [stage |-> "run", err |-> r.err, value |-> r.value, stdout |-> r.stdout,
              calls |-> r.calls]

-----------------------------------------------------------------------------
(* chat: endpoint resolution. *)

ChatOptions_canAccessClusterEndpoint(endpoint) ==
    LookupHost(TrimPrefix(TrimPrefix(endpoint, "http://"), "https://"))

ChatOptions_getAPIProxyEndpoint(o) ==
    IF restConfig.err THEN [err |-> Err("failed to get REST config"), url |-> NoURL]
    ELSE LET namespace == IF o.Namespace = "" THEN "default" ELSE o.Namespace
         IN  [err |-> Nil,
              url |-> TrimSuffix(restConfig.host, "/") \o
                      <<"/api/v1/namespaces/", namespace, "/services/",
                        o.WorkspaceName, ":80", "/proxy">>]

\* The result is [err, value, calls]; value is the chat endpoint URL.
getInferenceEndpoint(o) ==
    IF GetFails("get.services", services, o.Namespace, o.WorkspaceName)
    THEN [err |-> Err("failed to get service"), value |-> NoURL,
          calls |-> <<"k8s.get.services">>]
    ELSE
        LET svc == Lookup(services, o.Namespace, o.WorkspaceName)
            clusterEndpoint == clusterURL(o.WorkspaceName, o.Namespace)
            apiProxy == ChatOptions_getAPIProxyEndpoint(o)
            netCalls == <<"k8s.get.services", "dns.lookup">>
        IN  IF svc.ClusterIP = "" \/ svc.ClusterIP = "None"
            THEN [err |-> Err("service has no cluster IP"), value |-> NoURL,
                  calls |-> <<"k8s.get.services">>]
            ELSE IF ChatOptions_canAccessClusterEndpoint(clusterEndpoint)
            THEN [err |-> Nil, value |-> clusterEndpoint \o <<"/v1/chat/completions">>,
                  calls |-> netCalls]
            ELSE IF apiProxy.err.isErr
            THEN [err |-> Err("failed to get API proxy endpoint"), value |-> NoURL,
                  calls |-> netCalls]
            ELSE [err |-> Nil, value |-> apiProxy.url \o <<"/v1/chat/completions">>,
                  calls |-> netCalls]

-----------------------------------------------------------------------------
(* chat: numbers and text. *)

\* A float64 is counted in tenths (0.7 is 7), or is NaN; every comparison
\* with NaN is false, as in Go.
F(tenths) == [nan |-> FALSE, v |-> tenths]
NaN == [nan |-> TRUE, v |-> 0]
FloatLT(a, b) == ~a.nan /\ ~b.nan /\ a.v < b.v
FloatGT(a, b) == ~a.nan /\ ~b.nan /\ a.v > b.v
FloatLE(a, b) == ~a.nan /\ ~b.nan /\ a.v <= b.v
FloatGE(a, b) == ~a.nan /\ ~b.nan /\ a.v >= b.v

\* The value texts a /set line may carry, and what they denote.
DecimalLiterals == {"3.0", "1.5", "0.0", "2.0", "2.1", "-0.1", "1.0", "1.1"}
IntegerLiterals == {"1", "512", "0", "-5"}
Tenths(text) ==
    CASE text = "3.0" -> 30 [] text = "1.5" -> 15 [] text = "0.0" -> 0
      [] text = "2.0" -> 20 [] text = "2.1" -> 21 [] text = "-0.1" -> -1
      [] text = "1.0" -> 10 [] text = "1.1" -> 11
IntegerValue(text) ==
    CASE text = "1" -> 1 [] text = "512" -> 512 [] text = "0" -> 0 [] text = "-5" -> -5

\* strconv.ParseFloat(text, 64): decimals, integers and "NaN" parse.
ParseFloat(text) ==
    IF text = "NaN" THEN [err |-> FALSE, f |-> NaN]
    ELSE IF text \in DecimalLiterals THEN [err |-> FALSE, f |-> F(Tenths(text))]
    ELSE IF text \in IntegerLiterals THEN [err |-> FALSE, f |-> F(10 * IntegerValue(text))]
    ELSE [err |-> TRUE, f |-> F(0)]

\* strconv.Atoi(text): only integers parse.
Atoi(text) ==
    IF text \in IntegerLiterals THEN [err |-> FALSE, n |-> IntegerValue(text)]
    ELSE [err |-> TRUE, n |-> 0]

\* An input line is a sequence of pieces: words, and " " for white space.
RECURSIVE TrimLeft(_)
TrimLeft(line) ==
    IF line # <<>> /\ Head(line) = " " THEN TrimLeft(Tail(line)) ELSE line
RECURSIVE TrimRight(_)
TrimRight(line) ==
    IF line # <<>> /\ Last(line) = " " THEN TrimRight(Front(line)) ELSE line
TrimSpace(line) == TrimRight(TrimLeft(line))
IsWord(piece) == piece # " "
Fields(line) == SelectSeq(line, IsWord)

\* The words that begin with "/".
SlashWords == {"/help", "/quit", "/exit", "/clear", "/model", "/params", "/set", "/bogus"}
\* A variant that takes only the known commands for commands.
HasSlashPrefixKnown(input) == input # <<>> /\ Head(input) \in SlashWords \ {"/bogus"}
\* strings.HasPrefix(input, "/").
HasSlashPrefix(input) == input # <<>> /\ Head(input) \in SlashWords

TextLine(text, args) == [kind |-> "text", url |-> NoURL, doc |-> <<text>> \o args]

-----------------------------------------------------------------------------
(* chat: validation and the model name. *)

ChatOptions_validate(o) ==
    IF o.WorkspaceName = "" THEN Err("workspace name is required")
    ELSE IF FloatLT(o.Temperature, F(0)) \/ FloatGT(o.Temperature, F(20))
    THEN Err("temperature must be between 0.0 and 2.0")
    ELSE IF FloatLT(o.TopP, F(0)) \/ FloatGT(o.TopP, F(10))
    THEN Err("top-p must be between 0.0 and 1.0")
    ELSE IF o.MaxTokens <= 0 THEN Err("max-tokens must be greater than 0")
    ELSE Nil

\* The values of an unstructured object: strings, null, numbers and
\* booleans (with the text %v prints), and maps.
StrV(text) == [t |-> "str", text |-> text]
NilV == [t |-> "nil", text |-> "<nil>"]
NumV(text) == [t |-> "num", text |-> text]
MapV(m) == [t |-> "map", m |-> m]

\* convertToString: a string as it is; anything else as %v prints it,
\* unless that is "<nil>" or "".
convertToString(value) ==
    IF value.t = "str" THEN value.text
    ELSE IF value.t = "map" THEN "map[...]"
    ELSE IF value.text # "<nil>" /\ value.text # "" THEN value.text
    ELSE ""

RECURSIVE extractStringFromPath(_, _)
extractStringFromPath(obj, path) ==
    IF Len(path) = 0 THEN ""
    ELSE IF Head(path) \notin DOMAIN obj THEN ""
    ELSE LET value == obj[Head(path)]
         IN  IF Len(path) = 1 THEN convertToString(value)
             ELSE IF value.t = "map" THEN extractStringFromPath(value.m, Tail(path))
             ELSE ""

extractModelFromSpec(workspace) ==
    extractStringFromPath(workspace.Object, <<"spec", "inference", "preset", "name">>)
extractModelFromInference(workspace) ==
    extractStringFromPath(workspace.Object, <<"inference", "preset", "name">>)
extractModelFromInferenceModel(workspace) ==
    extractStringFromPath(workspace.Object, <<"inference", "model">>)

\* getWorkspace: the error, or the Workspace fetched.
getWorkspaceFails(o) ==
    \/ restConfig.err
    \/ clientFail = "dynamic"
    \/ GetFails("get.workspaces", workspaces, o.Namespace, o.WorkspaceName)

\* A variant that reads only spec.inference.preset.name.
getModelNameSpecOnly(o) ==
    IF getWorkspaceFails(o) THEN [err |-> Err("failed to get workspace"), name |-> ""]
    ELSE LET workspace == Lookup(workspaces, o.Namespace, o.WorkspaceName)
         IN  IF extractModelFromSpec(workspace) # ""
             THEN [err |-> Nil, name |-> extractModelFromSpec(workspace)]
             ELSE [err |-> Nil, name |-> "Unknown"]

\* The result is [err, name].
getModelName(o) ==
    IF getWorkspaceFails(o) THEN [err |-> Err("failed to get workspace"), name |-> ""]
    ELSE LET workspace == Lookup(workspaces, o.Namespace, o.WorkspaceName)
         IN  IF extractModelFromSpec(workspace) # ""
             THEN [err |-> Nil, name |-> extractModelFromSpec(workspace)]
             ELSE IF extractModelFromInference(workspace) # ""
             THEN [err |-> Nil, name |-> extractModelFromInference(workspace)]
             ELSE IF extractModelFromInferenceModel(workspace) # ""
             THEN [err |-> Nil, name |-> extractModelFromInferenceModel(workspace)]
             ELSE [err |-> Nil, name |-> "Unknown"]

-----------------------------------------------------------------------------
(* chat: the session commands. *)

\* A variant of the temperature range that admits up to 3.0.
temperatureInRangeWide(temp) == FloatGE(temp, F(0)) /\ FloatLE(temp, F(30))

\* The ranges setParameter accepts.
temperatureInRange(temp) == FloatGE(temp, F(0)) /\ FloatLE(temp, F(20))
maxTokensInRange(tokens) == tokens > 0
topPInRange(topP) == FloatGE(topP, F(0)) /\ FloatLE(topP, F(10))

\* setParameter(param, value).  The result is [o, stdout]: the options
\* after the call and the lines printed.
setParameter(o, param, value) ==
    LET temp == ParseFloat(value)
        tokens == Atoi(value)
        topP == ParseFloat(value)
    IN  IF param = "temperature"
        THEN IF ~temp.err /\ temperatureInRange(temp.f)
             THEN [o |-> [o EXCEPT !.Temperature = temp.f],
                   stdout |-> <<TextLine("Temperature set to", <<temp.f>>)>>]
             ELSE [o |-> o, stdout |-> <<TextLine("Invalid temperature value", <<>>)>>]
        ELSE IF param = "max_tokens"
        THEN IF ~tokens.err /\ maxTokensInRange(tokens.n)
             THEN [o |-> [o EXCEPT !.MaxTokens = tokens.n],
                   stdout |-> <<TextLine("Max tokens set to", <<tokens.n>>)>>]
             ELSE [o |-> o, stdout |-> <<TextLine("Invalid max_tokens value", <<>>)>>]
        ELSE IF param = "top_p"
        THEN IF ~topP.err /\ topPInRange(topP.f)
             THEN [o |-> [o EXCEPT !.TopP = topP.f],
                   stdout |-> <<TextLine("Top-p set to", <<topP.f>>)>>]
             ELSE [o |-> o, stdout |-> <<TextLine("Invalid top_p value", <<>>)>>]
        ELSE [o |-> o, stdout |-> <<TextLine("Unknown parameter", <<param>>)>>]

\* handleCommand(command, modelName).  The result is [exit, o, stdout].
handleCommand(o, command, modelName) ==
    LET parts == Fields(command)
        stay(lines) == [exit |-> FALSE, o |-> o, stdout |-> lines]
    IN  IF Len(parts) = 0 THEN stay(<<>>)
        ELSE IF parts[1] = "/help" THEN stay(<<TextLine("Available commands:", <<>>)>>)
        ELSE IF parts[1] = "/quit" \/ parts[1] = "/exit"
        THEN [exit |-> TRUE, o |-> o, stdout |-> <<TextLine("Chat session ended.", <<>>)>>]
        ELSE IF parts[1] = "/clear"
        THEN stay(<<TextLine("Connected to workspace", <<o.WorkspaceName, modelName>>)>>)
        ELSE IF parts[1] = "/model"
        THEN stay(<<TextLine("Current model", <<modelName, o.WorkspaceName, o.Namespace>>)>>)
        ELSE IF parts[1] = "/params"
        THEN stay(<<TextLine("Current inference parameters",
                             <<o.Temperature, o.MaxTokens, o.TopP>>)>>)
        ELSE IF parts[1] = "/set"
        THEN IF Len(parts) < 3 THEN stay(<<TextLine("Usage: /set <parameter> <value>", <<>>)>>)
             ELSE [exit |-> FALSE, o |-> setParameter(o, parts[2], parts[3]).o,
                   stdout |-> setParameter(o, parts[2], parts[3]).stdout]
        ELSE stay(<<TextLine("Unknown command", <<parts[1]>>)>>)

-----------------------------------------------------------------------------
(* chat: sending one message. *)

\* A variant that sends the start-up defaults whatever the session holds.
buildRequestPayloadDefaults(o, message) ==
    [messages |-> <<[role |-> "user", content |-> message]>>,
     temperature |-> F(7),
     max_tokens |-> 1024,
     top_p |-> F(9)]

buildRequestPayload(o, message) ==
    [messages |-> <<[role |-> "user", content |-> message]>>,
     temperature |-> o.Temperature,
     max_tokens |-> o.MaxTokens,
     top_p |-> o.TopP]

\* json.Marshal refuses a NaN float.
marshalFails(payload) == payload.temperature.nan \/ payload.top_p.nan

\* A variant that gives every endpoint the authenticated transport.
createHTTPClientAlwaysAuthenticated(endpoint) ==
    IF restConfig.err
    THEN [err |-> Err("failed to get REST config"), authenticated |-> FALSE]
    ELSE IF clientFail = "transport"
    THEN [err |-> Err("failed to create authenticated transport"),
          authenticated |-> FALSE]
    ELSE [err |-> Nil, authenticated |-> TRUE]

\* createHTTPClient: an API-proxy endpoint gets the authenticated transport
\* of the REST config.  The result is [err, authenticated].
createHTTPClient(endpoint) ==
    IF \E i \in 1..Len(endpoint) : endpoint[i] = "/api/v1/namespaces/"
    THEN IF restConfig.err
         THEN [err |-> Err("failed to get REST config"), authenticated |-> FALSE]
         ELSE IF clientFail = "transport"
         THEN [err |-> Err("failed to create authenticated transport"),
               authenticated |-> FALSE]
         ELSE [err |-> Nil, authenticated |-> TRUE]
    ELSE [err |-> Nil, authenticated |-> FALSE]

\* extractMessageContent(response).  The result is [err, content].
extractMessageContent(response) ==
    LET fail(m) == [err |-> Err(m), content |-> <<>>]
        choices == response.choices
    IN  IF ~choices.isList \/ Len(choices.items) = 0 THEN fail("no choices")
        ELSE IF ~choices.items[1].isMap THEN fail("invalid choice")
        ELSE IF ~choices.items[1].message.isMap THEN fail("no message")
        ELSE IF ~choices.items[1].message.content.isStr THEN fail("no content")
        ELSE [err |-> Nil, content |-> TrimSpace(choices.items[1].message.content.s)]

\* makeHTTPRequest against a server that answers reply.  The result is
\* [err, posted, authenticated, response]: posted tells whether the POST
\* was issued.
makeHTTPRequest(endpoint, reply) ==
    LET client == createHTTPClient(endpoint)
        fail(m, posted) == [err |-> Err(m), posted |-> posted,
                            authenticated |-> client.authenticated,
                            response |-> reply.json]
    IN  IF client.err.isErr THEN fail("failed to create HTTP client", FALSE)
        ELSE IF reply.transportErr THEN fail("failed to send request", TRUE)
        ELSE IF ~reply.readErr /\ reply.status # 200 THEN fail("API request failed", TRUE)
        ELSE IF reply.readErr THEN fail("failed to read response", TRUE)
        ELSE IF ~reply.json.valid THEN fail("failed to parse response", TRUE)
        ELSE [err |-> Nil, posted |-> TRUE, authenticated |-> client.authenticated,
              response |-> reply.json]

\* sendMessage(endpoint, message).  The result is [err, content, sent]:
\* sent is the sequence of requests POSTed (none or one).
sendMessage(o, endpoint, message, reply) ==
    LET payload == buildRequestPayload(o, message)
        http == makeHTTPRequest(endpoint, reply)
        request == [endpoint |-> endpoint, payload |-> payload,
                    authenticated |-> http.authenticated]
        sent == IF http.posted THEN <<request>> ELSE <<>>
    IN  IF marshalFails(payload)
        THEN [err |-> Err("failed to marshal request"), content |-> <<>>, sent |-> <<>>]
        ELSE IF http.err.isErr
        THEN [err |-> http.err, content |-> <<>>, sent |-> sent]
        ELSE [err |-> extractMessageContent(http.response).err,
              content |-> extractMessageContent(http.response).content,
              sent |-> sent]

-----------------------------------------------------------------------------
(* chat: the session loop and the command. *)

\* What startInteractiveSession returns when scanner.Scan() reports false:
\* scannerErr tells whether scanner.Err() is non-nil (a read error) or nil
\* (end of input).  The result is [err, stdout].
scanStopped(scannerErr) ==
    IF scannerErr
    THEN [err |-> Nil, stdout |-> <<TextLine("Chat session ended.", <<>>)>>]
    ELSE [err |-> Err("error reading input"), stdout |-> <<>>]

\* A variant that leaves the loop when a send fails.
reportSendErrorAndReturn(o, msg) ==
    [exit |-> TRUE, o |-> o, stdout |-> <<>>,
     stderr |-> <<TextLine("Error", <<msg.err.msg>>)>>, sent |-> msg.sent]

\* The turn of the loop after sendMessage returned an error: the error goes
\* to standard error and the loop continues.
reportSendError(o, msg) ==
    [exit |-> FALSE, o |-> o, stdout |-> <<>>,
     stderr |-> <<TextLine("Error", <<msg.err.msg>>)>>, sent |-> msg.sent]

\* One turn of the loop for a line that was read.  The result is
\* [exit, o, stdout, stderr, sent].
loopBody(o, endpoint, modelName, line, reply) ==
    LET input == TrimSpace(line)
        cmd == handleCommand(o, input, modelName)
        msg == sendMessage(o, endpoint, input, reply)
    IN  IF HasSlashPrefix(input)
        THEN [exit |-> cmd.exit, o |-> cmd.o, stdout |-> cmd.stdout, stderr |-> <<>>,
              sent |-> <<>>]
        ELSE IF input = <<>>
        THEN [exit |-> FALSE, o |-> o, stdout |-> <<>>, stderr |-> <<>>, sent |-> <<>>]
        ELSE IF msg.err.isErr THEN reportSendError(o, msg)
        ELSE [exit |-> FALSE, o |-> o,
              stdout |-> <<TextLine("response", <<msg.content>>)>>,
              stderr |-> <<>>, sent |-> msg.sent]

\* ChatOptions.run up to the start of the session.  The result is
\* [err, o, endpoint, modelName, calls].
ChatOptions_run(o0) ==
    LET o == [o0 EXCEPT !.Namespace = resolveNamespace(o0.Namespace)]
        ep == getInferenceEndpoint(o)
        model == getModelName(o)
        fail(e, c) == [err |-> e, o |-> o, endpoint |-> NoURL, modelName |-> "",
                       calls |-> c]
        modelCalls == IF restConfig.err \/ clientFail = "dynamic" THEN <<>>
                      ELSE <<"k8s.get.workspaces">>
    IN  IF restConfig.err THEN fail(Err("failed to get REST config"), <<>>)
        ELSE IF clientFail = "kubernetes"
        THEN fail(Err("failed to create kubernetes client"), <<>>)
        ELSE IF ep.err.isErr THEN fail(ep.err, ep.calls)
        ELSE [err |-> Nil, o |-> o, endpoint |-> ep.value,
              modelName |-> IF model.err.isErr THEN "Unknown" ELSE model.name,
              calls |-> ep.calls \o modelCalls]

-----------------------------------------------------------------------------
(* models: the supported-model list, fetched over HTTP. *)

\* One entry of supported_models.yaml as parsed, and as a Model.
KaitoModel(name, type, runtime, minNodes, maxNodes, description) ==
    [Name |-> name, Type |-> type, Runtime |-> runtime, MinNodes |-> minNodes,
     MaxNodes |-> maxNodes, Description |-> description]

\* The conversion loop of fetchSupportedModelsFromKaito with its defaults.
convertModel(km) ==
    LET minNodes == IF km.MinNodes = 0 THEN 1 ELSE km.MinNodes
    IN  [Name |-> km.Name,
         Type |-> IF km.Type = "" THEN "LLM" ELSE km.Type,
         Runtime |-> IF km.Runtime = "" THEN "vllm" ELSE km.Runtime,
         MinNodes |-> minNodes,
         MaxNodes |-> IF km.MaxNodes = 0 THEN minNodes ELSE km.MaxNodes,
         Description |-> IF km.Description = <<>>
                         THEN <<"Official Kaito supported model: ", km.Name>>
                         ELSE km.Description]

\* fetch is what the HTTP GET of SupportedModelsURL meets: a transport error,
\* or a response with its status, a body that can be read or not and parses
\* as YAML or not, and the entries it lists.  The result is [err, models].
fetchSupportedModelsFromKaito(fetch) ==
    IF fetch.transportErr
    THEN [err |-> Err("failed to fetch supported models"), models |-> <<>>]
    ELSE IF fetch.status # 200
    THEN [err |-> Err("HTTP request failed with status"), models |-> <<>>]
    ELSE IF fetch.readErr
    THEN [err |-> Err("failed to read response body"), models |-> <<>>]
    ELSE IF fetch.yamlErr
    THEN [err |-> Err("failed to parse YAML response"), models |-> <<>>]
    ELSE [err |-> Nil,
          models |-> [i \in 1..Len(fetch.models) |-> convertModel(fetch.models[i])]]

\* getSupportedModels: whatever the fetch returned; on an error that is the
\* nil list (the error is only logged).
getSupportedModels(fetch) == fetchSupportedModelsFromKaito(fetch).models

\* ValidateModelName.  The result is [err, calls]: the list is fetched
\* unless the name is empty.
ValidateModelName(modelName, fetch) ==
    LET models == getSupportedModels(fetch)
    IN  IF modelName = ""
        THEN [err |-> Err("model name cannot be empty"), calls |-> <<>>]
        ELSE IF \E i \in 1..Len(models) : models[i].Name = modelName
        THEN [err |-> Nil, calls |-> <<"http.get.models">>]
        ELSE [err |-> Err("model is not supported by Kaito"),
              calls |-> <<"http.get.models">>]

\* printModelDetail: the heading with the model's name and its fields.
printModelDetail(model) ==
    <<TextLine("Model", <<model.Name>>),
      TextLine("Description", <<model.Description>>),
      TextLine("Type", <<model.Type>>),
      TextLine("Runtime", <<model.Runtime>>),
      TextLine("Usage Example", <<model.Name>>)>>

\* runModelsDescribe: lookupFetch is what the fetch of the list meets, and
\* validateFetch what the fetch inside ValidateModelName meets when the
\* name was not found.  The result is [err, stdout, calls].
runModelsDescribe(modelName, lookupFetch, validateFetch) ==
    LET models == getSupportedModels(lookupFetch)
        found == {i \in 1..Len(models) : models[i].Name = modelName}
        first == CHOOSE i \in found : \A j \in found : i <= j
        v == ValidateModelName(modelName, validateFetch)
    IN  IF found # {}
        THEN [err |-> Nil, stdout |-> printModelDetail(models[first]),
              calls |-> <<"http.get.models">>]
        ELSE [err |-> v.err, stdout |-> <<>>, calls |-> <<"http.get.models">> \o v.calls]

-----------------------------------------------------------------------------
(* deploy: validation. *)

\* The first entry of a flag table that is set, or "" when none is.
RECURSIVE firstSet(_)
firstSet(flags) ==
    IF flags = <<>> THEN ""
    ELSE IF ~Head(flags).empty THEN Head(flags).name
    ELSE firstSet(Tail(flags))

inferenceFlags(o) ==
    <<[name |-> "model-access-secret", empty |-> o.ModelAccessSecret = ""],
      [name |-> "adapters", empty |-> Len(o.Adapters) = 0],
      [name |-> "inference-config", empty |-> o.InferenceConfig = <<>>],
      [name |-> "enable-load-balancer", empty |-> ~o.EnableLoadBalancer]>>

\* A variant of the tuning flag table without model-image.
tuningFlagsNoModelImage(o) ==
    <<[name |-> "input-urls", empty |-> Len(o.InputURLs) = 0],
      [name |-> "output-image", empty |-> o.OutputImage = ""],
      [name |-> "output-image-secret", empty |-> o.OutputImageSecret = ""],
      [name |-> "tuning-config", empty |-> o.TuningConfig = ""],
      [name |-> "input-pvc", empty |-> o.InputPVC = ""],
      [name |-> "output-pvc", empty |-> o.OutputPVC = ""]>>

tuningFlags(o) ==
    <<[name |-> "input-urls", empty |-> Len(o.InputURLs) = 0],
      [name |-> "output-image", empty |-> o.OutputImage = ""],
      [name |-> "output-image-secret", empty |-> o.OutputImageSecret = ""],
      [name |-> "tuning-config", empty |-> o.TuningConfig = ""],
      [name |-> "input-pvc", empty |-> o.InputPVC = ""],
      [name |-> "output-pvc", empty |-> o.OutputPVC = ""],
      [name |-> "model-image", empty |-> o.ModelImage = ""]>>

validateModeFlags(o) ==
    IF o.Tuning
    THEN IF firstSet(inferenceFlags(o)) # ""
         THEN Errorf("cannot use inference flag when --tuning is enabled",
                     firstSet(inferenceFlags(o)))
         ELSE Nil
    ELSE IF firstSet(tuningFlags(o)) # ""
         THEN Errorf("tuning flag can only be used with --tuning enabled",
                     firstSet(tuningFlags(o)))
         ELSE Nil

\* The checks of Validate that follow the model-name check.
validateAfterModelName(o) ==
    IF validateModeFlags(o).isErr THEN validateModeFlags(o)
    ELSE IF o.Tuning /\ Len(o.InputURLs) = 0 /\ o.InputPVC = ""
    THEN Err("tuning mode requires either --input-urls or --input-pvc")
    ELSE IF o.Tuning /\ o.OutputImage = "" /\ o.OutputPVC = ""
    THEN Err("tuning mode requires either --output-image or --output-pvc")
    ELSE Nil

\* DeployOptions.Validate.  The result is [err, calls].
DeployOptions_Validate(o, fetch) ==
    LET model == ValidateModelName(o.Model, fetch)
    IN  IF o.WorkspaceName = ""
        THEN [err |-> Err("workspace name is required"), calls |-> <<>>]
        ELSE IF o.Model = ""
        THEN [err |-> Err("model name is required"), calls |-> <<>>]
        ELSE IF model.err.isErr THEN model
        ELSE [err |-> validateAfterModelName(o), calls |-> model.calls]

-----------------------------------------------------------------------------
(* deploy: building the Workspace object. *)

ListV(items) == [t |-> "list", items |-> items]
IntV(n) == [t |-> "int", n |-> n]
\* A Go map[string]string stored as it is in an unstructured object.
StringMapV(m) == [t |-> "map[string]string", m |-> m]

\* m[k] = v on a map.
Put(m, k, v) == [x \in DOMAIN m \cup {k} |-> IF x = k THEN v ELSE m[x]]

\* runtime.DeepCopyJSONValue panics on a value that is not a JSON value:
\* anywhere inside, only maps of interface{}, lists, strings, numbers,
\* booleans and nil may occur.
RECURSIVE isJSONValue(_)
isJSONValue(value) ==
    IF value.t = "map" THEN \A k \in DOMAIN value.m : isJSONValue(value.m[k])
    ELSE value.t # "map[string]string"

\* unstructured.SetNestedField(obj, value, field).  The result is
\* [panic, Object].
SetNestedField(obj, value, field) ==
    IF isJSONValue(value) THEN [panic |-> FALSE, Object |-> Put(obj, field, value)]
    ELSE [panic |-> TRUE, Object |-> obj]

\* SetName and SetNamespace remove the field when handed "", and the
\* metadata map exists only once one of them has set a field.
initWorkspaceObject(o) ==
    LET named == IF o.WorkspaceName = "" THEN EmptyMap
                 ELSE Put(EmptyMap, "name", StrV(o.WorkspaceName))
        metadata == IF o.Namespace = "" THEN named
                    ELSE Put(named, "namespace", StrV(o.Namespace))
        typed == [apiVersion |-> StrV("kaito.sh/v1beta1"), kind |-> StrV("Workspace")]
    IN  IF metadata = EmptyMap THEN typed ELSE Put(typed, "metadata", MapV(metadata))

matchLabels(o) ==
    IF o.LabelSelector # {} THEN StringMapV(o.LabelSelector)
    ELSE MapV([k \in {"kaito.sh/workspace"} |-> StrV(o.WorkspaceName)])

\* The result is [panic, Object].
setResourceConfig(o, obj) ==
    LET base == [instanceType |-> StrV(o.InstanceType),
                 labelSelector |-> MapV([matchLabels |-> matchLabels(o)])]
        resource == IF o.Count > 0 THEN Put(base, "count", IntV(o.Count)) ELSE base
    IN  SetNestedField(obj, MapV(resource), "resource")

tuningPreset(o) ==
    IF o.ModelImage # ""
    THEN MapV([name |-> StrV(o.Model),
               presetOptions |-> MapV([image |-> StrV(o.ModelImage)])])
    ELSE MapV([name |-> StrV(o.Model)])

tuningOutput(o) ==
    LET output == IF o.OutputImage # "" THEN [image |-> StrV(o.OutputImage)]
                  ELSE IF o.OutputPVC # "" THEN [pvc |-> StrV(o.OutputPVC)]
                  ELSE EmptyMap
    IN  IF o.OutputImageSecret # ""
        THEN Put(output, "imageSecret", StrV(o.OutputImageSecret))
        ELSE output

setTuningConfig(o, obj) ==
    LET t0 == IF o.TuningMethod # "" THEN Put(EmptyMap, "method", StrV(o.TuningMethod))
              ELSE EmptyMap
        t1 == IF o.Model # "" THEN Put(t0, "preset", tuningPreset(o)) ELSE t0
        t2 == IF Len(o.InputURLs) > 0
              THEN Put(t1, "input", MapV([urls |-> ListV(o.InputURLs)]))
              ELSE IF o.InputPVC # ""
              THEN Put(t1, "input", MapV([pvc |-> StrV(o.InputPVC)]))
              ELSE t1
        t3 == IF o.OutputImage # "" \/ o.OutputPVC # "" \/ o.OutputImageSecret # ""
              THEN Put(t2, "output", MapV(tuningOutput(o)))
              ELSE t2
        tuning == IF o.TuningConfig # "" THEN Put(t3, "config", StrV(o.TuningConfig))
                  ELSE t3
    IN  SetNestedField(obj, MapV(tuning), "tuning")

\* os.Stat(path) succeeds iff a file of that path exists.
osStat(path) == path \in DOMAIN files /\ files[path].exists
\* os.ReadFile(path).  The result is [err, data].
osReadFile(path) ==
    IF osStat(path) /\ files[path].readable
    THEN [err |-> FALSE, data |-> files[path].content]
    ELSE [err |-> TRUE, data |-> ""]

\* A variant that names the ConfigMap after the workspace alone.
configMapNameBare(workspaceName) == <<workspaceName>>
\* fmt.Sprintf("%s-inference-config", workspaceName)
configMapName(workspaceName) == <<workspaceName, "-inference-config">>

inferencePreset(o) ==
    IF o.ModelAccessSecret # ""
    THEN MapV([name |-> StrV(o.Model),
               presetOptions |->
                   MapV([modelAccessSecret |-> StrV(o.ModelAccessSecret)])])
    ELSE MapV([name |-> StrV(o.Model)])

setInferenceConfig(o, obj) ==
    LET i0 == IF o.Model # "" THEN Put(EmptyMap, "preset", inferencePreset(o))
              ELSE EmptyMap
        i1 == IF Len(o.Adapters) > 0 THEN Put(i0, "adapters", ListV(o.Adapters))
              ELSE i0
        inference ==
            IF o.InferenceConfig = <<>> THEN i1
            ELSE IF osStat(o.InferenceConfig)
            THEN Put(i1, "config", StrV(configMapName(o.WorkspaceName)))
            ELSE Put(i1, "config", StrV(o.InferenceConfig))
    IN  SetNestedField(obj, MapV(inference), "inference")

\* A variant of the mode step that adds the tuning block in every mode.
setModeConfigBoth(o, obj) ==
    IF o.Tuning THEN setTuningConfig(o, obj)
    ELSE IF setInferenceConfig(o, obj).panic THEN setInferenceConfig(o, obj)
    ELSE setTuningConfig(o, setInferenceConfig(o, obj).Object)

\* The mode step of buildWorkspace: the tuning block or the inference block.
setModeConfig(o, obj) ==
    IF o.Tuning THEN setTuningConfig(o, obj) ELSE setInferenceConfig(o, obj)

\* The type assertion on Object["metadata"] panics when there is no
\* metadata map.  The result is [panic, Object].
setLoadBalancerAnnotation(obj) ==
    IF "metadata" \notin DOMAIN obj THEN [panic |-> TRUE, Object |-> obj]
    ELSE
        LET metadata == obj.metadata.m
            annotations == IF "annotations" \in DOMAIN metadata
                           THEN metadata["annotations"].m ELSE EmptyMap
        IN  [panic |-> FALSE,
             Object |-> [obj EXCEPT !.metadata =
                 MapV(Put(metadata, "annotations",
                          MapV(Put(annotations, "kaito.sh/enable-lb", StrV("true")))))]]

\* The result is [panic, Object]: a panic in a step ends the build there.
buildWorkspace(o) ==
    LET init == initWorkspaceObject(o)
        res == setResourceConfig(o, init)
        mode == setModeConfig(o, res.Object)
    IN  IF res.panic THEN res
        ELSE IF mode.panic THEN mode
        ELSE IF o.EnableLoadBalancer THEN setLoadBalancerAnnotation(mode.Object)
        ELSE mode

-----------------------------------------------------------------------------
(* deploy: the run. *)

\* What a panic leaves in place of a returned error.
Panic == Err("panic: cannot deep copy map[string]string")

ConfigMapObject(namespace, name, data) ==
    [namespace |-> namespace, name |-> name,
     data |-> [k \in {"inference_config.yaml"} |-> data]]

\* createInferenceConfigMap: read the file, Create the ConfigMap, Update it
\* when it already exists.  The result is [err, configMaps, calls].
createInferenceConfigMap(configFile, workspaceName, namespace) ==
    LET yamlData == osReadFile(configFile)
        name == configMapName(workspaceName)
        configMap == ConfigMapObject(namespace, name, yamlData.data)
        created == CreateOutcome("create.configmaps", configMaps, namespace, name)
    IN  IF yamlData.err
        THEN [err |-> Err("failed to read inference config file"),
              configMaps |-> configMaps, calls |-> <<>>]
        ELSE IF created = "created"
        THEN [err |-> Nil, configMaps |-> configMaps \cup {configMap},
              calls |-> <<"k8s.create.configmaps">>]
        ELSE IF created = "error"
        THEN [err |-> Err("failed to create ConfigMap"), configMaps |-> configMaps,
              calls |-> <<"k8s.create.configmaps">>]
        ELSE IF UpdateFails("update.configmaps", configMaps, namespace, name)
        THEN [err |-> Err("failed to update ConfigMap"), configMaps |-> configMaps,
              calls |-> <<"k8s.create.configmaps", "k8s.update.configmaps">>]
        ELSE [err |-> Nil, configMaps |-> Replace(configMaps, configMap),
              calls |-> <<"k8s.create.configmaps", "k8s.update.configmaps">>]

\* The lines showDryRun prints before it builds the object.
dryRunSummary(o) ==
    LET line(cond, text, arg) == IF cond THEN <<TextLine(text, <<arg>>)>> ELSE <<>>
    IN  <<TextLine("Dry-run mode: Showing what would be created", <<>>),
          TextLine("Workspace Configuration:", <<>>),
          TextLine("Name", <<o.WorkspaceName>>),
          TextLine("Namespace", <<o.Namespace>>),
          TextLine("Model", <<o.Model>>),
          TextLine("Count", <<o.Count>>)>>
        \o line(o.InstanceType # "", "Instance Type", o.InstanceType)
        \o (IF o.Tuning
            THEN <<TextLine("Mode: Fine-tuning", <<o.TuningMethod>>)>>
                 \o line(Len(o.InputURLs) > 0, "Input URLs", o.InputURLs)
                 \o line(o.InputPVC # "", "Input PVC", o.InputPVC)
                 \o line(o.OutputImage # "", "Output Image", o.OutputImage)
                 \o line(o.OutputPVC # "", "Output PVC", o.OutputPVC)
                 \o line(o.OutputImageSecret # "", "Output Image Secret",
                         o.OutputImageSecret)
                 \o line(o.TuningConfig # "", "Tuning Config", o.TuningConfig)
            ELSE <<TextLine("Mode: Inference", <<>>)>>
                 \o line(Len(o.Adapters) > 0, "Adapters", o.Adapters)
                 \o line(o.ModelAccessSecret # "", "Model Access Secret",
                         o.ModelAccessSecret)
                 \o line(o.InferenceConfig # <<>>, "Inference Config", o.InferenceConfig)
                 \o line(o.EnableLoadBalancer, "LoadBalancer", "Enabled"))
        \o line(o.LabelSelector # {}, "Label Selector", o.LabelSelector)
        \o <<TextLine("Workspace definition is valid", <<>>)>>

\* showDryRun.  The result is [err, stdout]; no request is made.
showDryRun(o) ==
    LET workspace == buildWorkspace(o)
    IN  IF workspace.panic THEN [err |-> Panic, stdout |-> dryRunSummary(o)]
        ELSE [err |-> Nil,
              stdout |-> dryRunSummary(o)
                         \o <<TextLine("Workspace YAML:", <<workspace.Object>>),
                              TextLine("Run without --dry-run to create the workspace",
                                       <<>>)>>]

\* The steps of Run from the ConfigMap on, with the clients in hand.
createObjects(o) ==
    LET wantsFile == ~o.Tuning /\ o.InferenceConfig # <<>> /\ osStat(o.InferenceConfig)
        cm == IF wantsFile
              THEN createInferenceConfigMap(o.InferenceConfig, o.WorkspaceName,
                                            o.Namespace)
              ELSE [err |-> Nil, configMaps |-> configMaps, calls |-> <<>>]
        workspace == buildWorkspace(o)
        created == CreateOutcome("create.workspaces", workspaces, o.Namespace,
                                 o.WorkspaceName)
        object == [WorkspaceObject(o.Namespace, o.WorkspaceName, FALSE, NoStatus)
                       EXCEPT !.Object = workspace.Object]
        after(err, out, ws) ==
            [err |-> err, stdout |-> out, workspaces |-> ws,
             configMaps |-> cm.configMaps,
             calls |-> cm.calls \o <<"k8s.create.workspaces">>]
    IN  IF cm.err.isErr
        THEN [err |-> Err("failed to create inference ConfigMap"), stdout |-> <<>>,
              workspaces |-> workspaces, configMaps |-> cm.configMaps,
              calls |-> cm.calls]
        ELSE IF workspace.panic
        THEN [err |-> Panic, stdout |-> <<>>, workspaces |-> workspaces,
              configMaps |-> cm.configMaps, calls |-> cm.calls]
        ELSE IF created = "alreadyExists"
        THEN after(Nil, <<TextLine("Workspace already exists", <<o.WorkspaceName>>)>>,
                   workspaces)
        ELSE IF created = "error"
        THEN after(Err("failed to create workspace"), <<>>, workspaces)
        ELSE after(Nil,
                   <<TextLine("Workspace created successfully", <<o.WorkspaceName>>),
                     TextLine("Use 'kubectl kaito status' to check status",
                              <<o.WorkspaceName>>)>>,
                   workspaces \cup {object})

\* DeployOptions.Run.  The result is [err, stdout, workspaces, configMaps, calls].
DeployOptions_Run(o0) ==
    LET o == [o0 EXCEPT !.Namespace = resolveNamespace(o0.Namespace)]
        stop(err, out) == [err |-> err, stdout |-> out, workspaces |-> workspaces,
                           configMaps |-> configMaps, calls |-> <<>>]
        dry(r) == stop(r.err, r.stdout)
    IN  IF o.DryRun THEN dry(showDryRun(o))
        ELSE IF restConfig.err THEN stop(Err("failed to get REST config"), <<>>)
        ELSE IF clientFail = "dynamic"
        THEN stop(Err("failed to create dynamic client"), <<>>)
        ELSE IF clientFail = "kubernetes"
        THEN stop(Err("failed to create Kubernetes client"), <<>>)
        ELSE createObjects(o)

\* RunE of the deploy command: Validate, then Run.
\* stage is the step that RunE returned from.
DeployCmd(o, fetch) ==
    LET rejected(v) ==
            [stage |-> "validate", err |-> v.err, stdout |-> <<>>,
             workspaces |-> workspaces, configMaps |-> configMaps, calls |-> v.calls]
        ran(v, r) ==
            [stage |-> "run", err |-> r.err, stdout |-> r.stdout,
             workspaces |-> r.workspaces, configMaps |-> r.configMaps,
             calls |-> v.calls \o r.calls]
        after(v) == IF v.err.isErr THEN rejected(v) ELSE ran(v, DeployOptions_Run(o))
    IN  after(DeployOptions_Validate(o, fetch))

-----------------------------------------------------------------------------
(* The values the environment and the command lines are drawn from. *)

WorkspaceName == "my-ws"
Host == <<"https://", "api.example.com">>

\* The names the resolver may answer for: the cluster DNS name of the
\* workspace's Service, and the same with the port still attached (the text
\* canAccessClusterEndpoint hands to net.LookupHost).
serviceHost(workspaceName, namespace) ==
    <<workspaceName, ".", namespace, ".svc.cluster.local">>
DNSPool == {serviceHost(WorkspaceName, "default"),
            serviceHost(WorkspaceName, "default") \o <<":80">>}

RestConfigs == {[err |-> TRUE, host |-> <<>>],
                [err |-> FALSE, host |-> Host],
                [err |-> FALSE, host |-> Host \o <<"/">>]}

KubeNamespaces == {[err |-> TRUE, ns |-> ""], [err |-> FALSE, ns |-> ""],
                   [err |-> FALSE, ns |-> "team"]}

\* status.conditions entries: not a map, or a map whose type and status are
\* strings or not.
CondTypes == {Str("ResourceReady"), Str("InferenceReady"), Str("Other"), NotStr}
CondStatuses == {Str("True"), Str("False"), NotStr}
Conds == {[isMap |-> FALSE, type |-> NotStr, status |-> NotStr]} \cup
         {[isMap |-> TRUE, type |-> t, status |-> st] : t \in CondTypes, st \in CondStatuses}
Cond(t, st) == [isMap |-> TRUE, type |-> Str(t), status |-> Str(st)]

\* The status values over a set of condition entries: not a map, a map
\* without conditions, a map whose conditions is not a list, a map with a list.
StatusOver(conds, n) ==
    {[kind |-> "scalar", hasConditions |-> FALSE, condIsList |-> FALSE, conditions |-> <<>>],
     [kind |-> "map", hasConditions |-> FALSE, condIsList |-> FALSE, conditions |-> <<>>],
     [kind |-> "map", hasConditions |-> TRUE, condIsList |-> FALSE, conditions |-> <<>>]} \cup
    {[kind |-> "map", hasConditions |-> TRUE, condIsList |-> TRUE, conditions |-> l] :
        l \in SeqUpTo(conds, n)}
StatusValues == StatusOver(Conds, MaxConds)


\* The Workspaces the get-endpoint command is run against.
GateConds == {Cond("ResourceReady", "True"), Cond("InferenceReady", "True"),
              Cond("InferenceReady", "False")}
GateWorkspaces ==
    {WorkspaceObject("default", WorkspaceName, FALSE, NoStatus)} \cup
    {WorkspaceObject("default", WorkspaceName, TRUE, st) :
        st \in StatusOver(GateConds, MaxGateConds)}

\* Service objects.
Ingress(ip, hostname) == [IP |-> ip, Hostname |-> hostname]
IngressEntries == {Ingress("", ""), Ingress("20.0.0.1", ""),
                   Ingress("", "lb.example.com"), Ingress("20.0.0.2", "lb2.example.com")}
ServiceObject(namespace, name, type, clusterIP, ingress) ==
    [namespace |-> namespace, name |-> name, Type |-> type, ClusterIP |-> clusterIP,
     Ingress |-> ingress]
ServiceObjects ==
    {ServiceObject("default", WorkspaceName, t, ip, ing) :
        t \in {"ClusterIP", "LoadBalancer"}, ip \in {"", "None", "10.0.0.5"},
        ing \in SeqUpTo(IngressEntries, MaxIngress)}
GateServices ==
    {ServiceObject("default", WorkspaceName, "ClusterIP", "10.0.0.5", <<>>),
     ServiceObject("default", WorkspaceName, "ClusterIP", "None", <<>>),
     ServiceObject("default", WorkspaceName, "LoadBalancer", "10.0.0.5",
                   <<Ingress("20.0.0.1", "")>>)}

GetEndpointOptions ==
    [WorkspaceName : {"", WorkspaceName}, Namespace : {"", "team"},
     Format : {"url", "json", "yaml"}]
EnumOptions ==
    [WorkspaceName : {WorkspaceName}, Namespace : {"", "default", "team"},
     Format : {"url"}]

NoOpts == [none |-> TRUE]

\* A local file: whether it exists (os.Stat succeeds), whether it can be
\* read (os.ReadFile succeeds), and its contents.
File(exists, readable, content) ==
    [exists |-> exists, readable |-> readable, content |-> content]
ConfigPath == <<"cfg.yaml">>
NoFiles == [path \in {ConfigPath} |-> File(FALSE, FALSE, "")]

\* The chat variables while no chat command runs: the struct NewChatCmd
\* builds (temperature 0.7, max tokens 1024, top-p 0.9; tenths below).
DefaultChatOptions ==
    [WorkspaceName |-> "", Namespace |-> "", Temperature |-> F(7), MaxTokens |-> 1024,
     TopP |-> F(9)]
IdleSession == [pc |-> "idle", endpoint |-> NoURL, modelName |-> "", linesRead |-> 0]
NoSession ==
    /\ chatOptions = DefaultChatOptions
    /\ session = IdleSession
    /\ requests = <<>>
    /\ stderr = <<>>
NoRet == [err |-> Nil, value |-> <<>>]

-----------------------------------------------------------------------------
(* The get-endpoint command run against a cluster. *)

InitGetEndpoint ==
    /\ workspaces \in {{}} \cup {{w} : w \in GateWorkspaces}
    /\ services \in {{}} \cup {{x} : x \in GateServices}
    /\ configMaps = {}
    /\ dnsNames \in {{}, DNSPool}
    /\ restConfig \in RestConfigs
    /\ kubeNamespace \in KubeNamespaces
    /\ clientFail \in {"none", "dynamic", "kubernetes"}
    /\ apiFail = {}
    /\ files = NoFiles
    /\ NoSession
    /\ op = "none" /\ opts = NoOpts /\ ret = NoRet /\ stdout = <<>> /\ calls = <<>>

GetEndpoint(o) ==
    LET r == GetEndpointCmd(o)
    IN  /\ op' = "get-endpoint"
        /\ opts' = o
        /\ ret' = [err |-> r.err, value |-> r.value, stage |-> r.stage]
        /\ stdout' = r.stdout
        /\ calls' = r.calls
        /\ UNCHANGED <<envVars, chatVars>>

NextGetEndpoint == \E o \in GetEndpointOptions : GetEndpoint(o)

SpecGetEndpoint == InitGetEndpoint /\ [][NextGetEndpoint]_vars

-----------------------------------------------------------------------------
(* The Endpoint Enumerator and chat's endpoint resolution, called directly. *)

InitEndpoints ==
    /\ workspaces = {}
    /\ services \in {{}} \cup {{x} : x \in ServiceObjects}
    /\ configMaps = {}
    /\ dnsNames \in SUBSET DNSPool
    /\ restConfig \in RestConfigs
    /\ kubeNamespace = [err |-> FALSE, ns |-> ""]
    /\ clientFail = "none"
    /\ apiFail = {}
    /\ files = NoFiles
    /\ NoSession
    /\ op = "none" /\ opts = NoOpts /\ ret = NoRet /\ stdout = <<>> /\ calls = <<>>

GetAllEndpoints(o) ==
    LET r == getAllEndpoints(o)
    IN  /\ op' = "getAllEndpoints"
        /\ opts' = o
        /\ ret' = [err |-> r.err, value |-> r.endpoints]
        /\ stdout' = <<>>
        /\ calls' = r.calls
        /\ UNCHANGED <<envVars, chatVars>>

GetInferenceEndpoint(o) ==
    LET r == getInferenceEndpoint(o)
    IN  /\ op' = "getInferenceEndpoint"
        /\ opts' = o
        /\ ret' = [err |-> r.err, value |-> r.value]
        /\ stdout' = <<>>
        /\ calls' = r.calls
        /\ UNCHANGED <<envVars, chatVars>>

\* The two API-proxy URL builders, called directly.
GetAPIProxyEndpoint(o) ==
    LET r == getAPIProxyEndpoint(o)
    IN  /\ op' = "getAPIProxyEndpoint"
        /\ opts' = o
        /\ ret' = [err |-> r.err, value |-> r.url]
        /\ stdout' = <<>>
        /\ calls' = <<>>
        /\ UNCHANGED <<envVars, chatVars>>

ChatGetAPIProxyEndpoint(o) ==
    LET r == ChatOptions_getAPIProxyEndpoint(o)
    IN  /\ op' = "chat.getAPIProxyEndpoint"
        /\ opts' = o
        /\ ret' = [err |-> r.err, value |-> r.url]
        /\ stdout' = <<>>
        /\ calls' = <<>>
        /\ UNCHANGED <<envVars, chatVars>>

NextEndpoints ==
    \/ \E o \in EnumOptions : GetAllEndpoints(o)
    \/ \E o \in EnumOptions : GetInferenceEndpoint(o)
    \/ \E o \in EnumOptions : GetAPIProxyEndpoint(o)
    \/ \E o \in EnumOptions : ChatGetAPIProxyEndpoint(o)

SpecEndpoints == InitEndpoints /\ [][NextEndpoints]_vars

-----------------------------------------------------------------------------
(* The Readiness Evaluator and the Endpoint Selector, applied to inputs. *)

\* The lists handed to the selector: any order of any entries.
SelectorEntries ==
    {EndpointInfo(<<"http://", "20.0.0.1", ":80">>, "LoadBalancer", "external", "lb"),
     EndpointInfo(<<"http://", "20.0.0.2", ":80">>, "LoadBalancer", "external", "lb"),
     EndpointInfo(Host \o <<"/proxy">>, "APIProxy", "cluster", "proxy"),
     EndpointInfo(clusterURL(WorkspaceName, "default"), "ClusterIP", "internal", "dns")}

IdleEnvironment ==
    /\ workspaces = {} /\ services = {} /\ configMaps = {}
    /\ dnsNames = {}
    /\ restConfig = [err |-> FALSE, host |-> Host]
    /\ kubeNamespace = [err |-> FALSE, ns |-> ""]
    /\ clientFail = "none"
    /\ apiFail = {}
    /\ files = NoFiles

InitReady ==
    /\ IdleEnvironment
    /\ opts \in {[status |-> status] : status \in StatusValues}
    /\ NoSession
    /\ op = "none" /\ ret = NoRet /\ stdout = <<>> /\ calls = <<>>

IsWorkspaceReady ==
    /\ op = "none"
    /\ op' = "isWorkspaceReady"
    /\ ret' = [err |-> Nil, value |-> isWorkspaceReady(opts.status)]
    /\ UNCHANGED <<envVars, chatVars, opts, stdout, calls>>

\* status, from the status map on: the three summary lines.
PrintConditionStatuses ==
    LET r == printConditionStatuses(opts.status)
    IN  /\ op = "none"
        /\ opts.status.kind = "map"
        /\ op' = "printConditionStatuses"
        /\ ret' = [err |-> Nil, value |-> r.statuses]
        /\ stdout' = IF r.printed
                     THEN <<TextLine("Resource Ready", <<r.statuses.resourceReady>>),
                            TextLine("Inference Ready", <<r.statuses.inferenceReady>>),
                            TextLine("Workspace Ready", <<r.statuses.workspaceReady>>)>>
                     ELSE <<>>
        /\ UNCHANGED <<envVars, chatVars, opts, calls>>

NextReady == IsWorkspaceReady \/ PrintConditionStatuses
SpecReady == InitReady /\ [][NextReady]_vars

InitSelect ==
    /\ IdleEnvironment
    /\ opts \in {[endpoints |-> endpoints] :
                    endpoints \in SeqUpTo(SelectorEntries, MaxEndpoints)}
    /\ NoSession
    /\ op = "none" /\ ret = NoRet /\ stdout = <<>> /\ calls = <<>>

SelectEndpoint ==
    LET r == selectEndpoint(opts.endpoints)
    IN  /\ op = "none"
        /\ op' = "selectEndpoint"
        /\ ret' = [err |-> r.err, value |-> <<>>]
        /\ stdout' = r.stdout
        /\ UNCHANGED <<envVars, chatVars, opts, calls>>

NextSelect == SelectEndpoint
SpecSelect == InitSelect /\ [][NextSelect]_vars

-----------------------------------------------------------------------------
(* Properties of get-endpoint. *)

\* The options of the last get-endpoint run, with the namespace run resolves.
RunNamespace == resolveNamespace(opts.Namespace)

\* C1 (as claimed): whenever the readiness gate fails (the Workspace cannot
\* be fetched, it has no status, or the Readiness Evaluator says not ready),
\* get-endpoint returns a non-nil error.
C1_GateFails ==
    \/ GetFails("get.workspaces", workspaces, RunNamespace, opts.WorkspaceName)
    \/ ~Lookup(workspaces, RunNamespace, opts.WorkspaceName).hasStatus
    \/ ~isWorkspaceReady(Lookup(workspaces, RunNamespace, opts.WorkspaceName).status)
C1_GateFailureIsError ==
    (op = "get-endpoint" /\ C1_GateFails) => ret.err.isErr

\* C5: getAllEndpoints returns either an error and no list, or no error and
\* a non-empty list; a Service that cannot be fetched gives the error.
C5_NeverEmptySuccess ==
    op = "getAllEndpoints" =>
        /\ \/ ret.err.isErr /\ ret.value = <<>>
           \/ ~ret.err.isErr /\ Len(ret.value) > 0
        /\ GetFails("get.services", services, opts.Namespace, opts.WorkspaceName)
              => ret.err.isErr /\ ret.value = <<>>
\* The Service exists, nothing is usable, and the call reports the error.
C5_Witness ==
    /\ op = "getAllEndpoints"
    /\ Exists(services, opts.Namespace, opts.WorkspaceName)
    /\ ret.err.isErr

TypeRank(type) ==
    CASE type = "LoadBalancer" -> 1
      [] type = "APIProxy" -> 2
      [] type = "ClusterIP" -> 3
      [] OTHER -> 0

HasIngressIP(svc) == \E i \in 1..Len(svc.Ingress) : svc.Ingress[i].IP # ""

\* C6: every list the Enumerator returns is ordered LoadBalancer, APIProxy,
\* ClusterIP with at most one entry of each type, and a LoadBalancer Service
\* with an ingress IP puts a LoadBalancer/external entry first.
C6_Ordering ==
    op = "getAllEndpoints" =>
        /\ \A i \in 1..Len(ret.value) : TypeRank(ret.value[i].Type) > 0
        /\ \A i, j \in 1..Len(ret.value) :
              i < j => TypeRank(ret.value[i].Type) < TypeRank(ret.value[j].Type)
        /\ \A svc \in services :
              ( /\ svc.namespace = opts.Namespace /\ svc.name = opts.WorkspaceName
                /\ svc.Type = "LoadBalancer" /\ HasIngressIP(svc) )
              => /\ ~ret.err.isErr
                 /\ ret.value[1].Type = "LoadBalancer"
                 /\ ret.value[1].Access = "external"
\* A LoadBalancer Service whose first ingress entry is empty and whose second
\* has an IP: the list starts LoadBalancer, APIProxy.
C6_Witness ==
    /\ op = "getAllEndpoints"
    /\ Len(ret.value) >= 2
    /\ ret.value[1].Type = "LoadBalancer"
    /\ ret.value[2].Type = "APIProxy"
    /\ \E svc \in services :
          /\ Len(svc.Ingress) = 2
          /\ svc.Ingress[1] = Ingress("", "")
          /\ svc.Ingress[2].IP # ""

WellFormed(c) == c.isMap /\ c.type.isStr /\ c.status.isStr
HasTrue(conditions, type) ==
    \E i \in 1..Len(conditions) :
        /\ WellFormed(conditions[i])
        /\ conditions[i].type.s = type
        /\ conditions[i].status.s = "True"

\* C7: isWorkspaceReady is true iff status is a map whose conditions is a
\* list with a well-formed ResourceReady=True entry and a well-formed
\* InferenceReady=True entry.
C7_ReadyIff ==
    op = "isWorkspaceReady" =>
        ( ret.value <=>
            /\ opts.status.kind = "map"
            /\ opts.status.hasConditions
            /\ opts.status.condIsList
            /\ HasTrue(opts.status.conditions, "ResourceReady")
            /\ HasTrue(opts.status.conditions, "InferenceReady") )
\* Ready, with InferenceReady listed before ResourceReady and a malformed
\* entry in between.
C7_Witness ==
    /\ op = "isWorkspaceReady"
    /\ ret.value
    /\ Len(opts.status.conditions) = 3
    /\ opts.status.conditions[1] = Cond("InferenceReady", "True")
    /\ ~WellFormed(opts.status.conditions[2])

HasExternal(endpoints) == \E i \in 1..Len(endpoints) : endpoints[i].Access = "external"
FirstExternalIndex(endpoints) ==
    CHOOSE i \in 1..Len(endpoints) :
        /\ endpoints[i].Access = "external"
        /\ \A j \in 1..(i - 1) : endpoints[j].Access # "external"

\* C8: in url mode exactly one URL is printed: that of the first external
\* entry wherever it stands, else that of entry 0; an empty list is an error.
C8_Selector ==
    op = "selectEndpoint" =>
        IF opts.endpoints = <<>>
        THEN ret.err.isErr /\ stdout = <<>>
        ELSE /\ ~ret.err.isErr
             /\ Len(stdout) = 1
             /\ stdout[1].kind = "url"
             /\ stdout[1].url =
                  IF HasExternal(opts.endpoints)
                  THEN opts.endpoints[FirstExternalIndex(opts.endpoints)].URL
                  ELSE opts.endpoints[1].URL
\* An external entry that is last in the list is the one printed.
C8_Witness ==
    /\ op = "selectEndpoint"
    /\ Len(opts.endpoints) = 3
    /\ opts.endpoints[1].Access = "cluster"
    /\ opts.endpoints[2].Access = "internal"
    /\ opts.endpoints[3].Access = "external"
    /\ stdout = <<URLLine(opts.endpoints[3].URL)>>

-----------------------------------------------------------------------------
(* Properties of chat's endpoint resolution. *)

APIProxyURL(host, namespace, workspaceName) ==
    host \o <<"/api/v1/namespaces/", namespace, "/services/", workspaceName,
              ":80", "/proxy">>

\* C9 (as claimed): when chat's endpoint resolution succeeds, the endpoint is
\* the cluster-internal URL if the Service's DNS host name resolves, and the
\* API-proxy URL otherwise, each followed by /v1/chat/completions.
C9_ChatEndpoint ==
    (op = "getInferenceEndpoint" /\ ~ret.err.isErr) =>
        ret.value =
            ( IF LookupHost(serviceHost(opts.WorkspaceName, opts.Namespace))
              THEN clusterURL(opts.WorkspaceName, opts.Namespace)
              ELSE APIProxyURL(Host,
                               IF opts.Namespace = "" THEN "default" ELSE opts.Namespace,
                               opts.WorkspaceName) )
            \o <<"/v1/chat/completions">>

-----------------------------------------------------------------------------
(* The chat command and its session. *)

ChatFlags ==
    [WorkspaceName : {"", WorkspaceName}, Namespace : {""},
     Temperature : {F(7), F(21), NaN}, MaxTokens : {1024, 0}, TopP : {F(9), F(11)}]

\* The lines typed in a session.
ChatLines ==
    {<<>>, <<" ">>, <<"/help">>, <<"/quit">>, <<" ", "/exit", " ">>, <<"/clear">>,
     <<"/model">>, <<"/params">>, <<"/bogus">>, <<"/set">>,
     <<"/set", " ", "temperature">>,
     <<"/set", " ", "temperature", " ", "1.5">>,
     <<"/set", " ", "temperature", " ", "3.0">>,
     <<"/set", " ", "max_tokens", " ", "512">>,
     <<"/set", " ", "max_tokens", " ", "0">>,
     <<"/set", " ", "top_p", " ", "1.1">>,
     <<"/set", " ", "top_p", " ", "1.0", " ", "please">>,
     <<"/set", " ", "foo", " ", "1">>,
     <<"hello">>, <<" ", "what", " ", "is", " ", "AI?", " ">>}

\* What the inference server answers to one POST.
Choice(isMap, messageIsMap, content) ==
    [isMap |-> isMap, message |-> [isMap |-> messageIsMap, content |-> content]]
JSONBody(valid, isList, items) ==
    [valid |-> valid, choices |-> [isList |-> isList, items |-> items]]
Reply(transportErr, status, readErr, json) ==
    [transportErr |-> transportErr, status |-> status, readErr |-> readErr, json |-> json]
Content(line) == [isStr |-> TRUE, s |-> line]
NoContent == [isStr |-> FALSE, s |-> <<>>]
GoodBody == JSONBody(TRUE, TRUE, <<Choice(TRUE, TRUE, Content(<<" ", "Hi!", " ">>))>>)
Replies ==
    {Reply(FALSE, 200, FALSE, GoodBody),
     Reply(TRUE, 0, FALSE, GoodBody),
     Reply(FALSE, 500, FALSE, GoodBody),
     Reply(FALSE, 200, TRUE, GoodBody),
     Reply(FALSE, 200, FALSE, JSONBody(FALSE, FALSE, <<>>)),
     Reply(FALSE, 200, FALSE, JSONBody(TRUE, FALSE, <<>>)),
     Reply(FALSE, 200, FALSE, JSONBody(TRUE, TRUE, <<>>)),
     Reply(FALSE, 200, FALSE, JSONBody(TRUE, TRUE, <<Choice(FALSE, FALSE, NoContent)>>)),
     Reply(FALSE, 200, FALSE, JSONBody(TRUE, TRUE, <<Choice(TRUE, FALSE, NoContent)>>)),
     Reply(FALSE, 200, FALSE, JSONBody(TRUE, TRUE, <<Choice(TRUE, TRUE, NoContent)>>))}
NoReply == Reply(TRUE, 0, FALSE, JSONBody(FALSE, FALSE, <<>>))

\* The lines that are sent as messages: the only ones a reply is drawn for.
IsMessageLine(line) == TrimSpace(line) # <<>> /\ ~HasSlashPrefix(TrimSpace(line))

\* Workspaces that name their model.
NamedWorkspace ==
    [WorkspaceObject("default", WorkspaceName, FALSE, NoStatus) EXCEPT
        !.Object = [inference |-> MapV([preset |-> MapV([name |-> StrV("phi-4")])])]]

InitChat ==
    /\ workspaces \in {{}, {NamedWorkspace}}
    /\ services \in {{}, {ServiceObject("default", WorkspaceName, "ClusterIP", "10.0.0.5", <<>>)}}
    /\ configMaps = {}
    /\ dnsNames \in {{}, DNSPool}
    /\ restConfig = [err |-> FALSE, host |-> Host]
    /\ kubeNamespace = [err |-> FALSE, ns |-> ""]
    /\ clientFail \in {"none", "transport"}
    /\ apiFail = {}
    /\ files = NoFiles
    /\ NoSession
    /\ op = "none" /\ opts = NoOpts /\ ret = NoRet /\ stdout = <<>> /\ calls = <<>>

\* RunE of the chat command, up to the first prompt: validate, then run.
ChatCmd(flags) ==
    LET v == ChatOptions_validate(flags)
        r == ChatOptions_run(flags)
        failed == v.isErr \/ r.err.isErr
    IN  /\ op = "none"
        /\ op' = "chat"
        /\ opts' = flags
        /\ chatOptions' = IF v.isErr THEN flags ELSE r.o
        /\ session' = IF failed THEN [IdleSession EXCEPT !.pc = "ended"]
                      ELSE [pc |-> "running", endpoint |-> r.endpoint,
                            modelName |-> r.modelName, linesRead |-> 0]
        /\ ret' = [err |-> IF v.isErr THEN Errorf("validation failed", v.msg) ELSE r.err,
                   value |-> <<>>,
                   stage |-> IF v.isErr THEN "validate" ELSE "run"]
        /\ stdout' = IF failed THEN <<>>
                     ELSE <<TextLine("Connected to workspace",
                                     <<r.o.WorkspaceName, r.modelName>>)>>
        /\ calls' = IF v.isErr THEN <<>> ELSE r.calls
        /\ UNCHANGED <<envVars, requests, stderr>>

\* scanner.Scan() delivers a line: one turn of the loop.
ReadLine(line, reply) ==
    LET r == loopBody(chatOptions, session.endpoint, session.modelName, line, reply)
    IN  /\ session.pc = "running"
        /\ session.linesRead < MaxLines
        /\ op' = "readLine"
        /\ opts' = [line |-> line, reply |-> reply]
        /\ chatOptions' = r.o
        /\ session' = [session EXCEPT !.pc = IF r.exit THEN "ended" ELSE "running",
                                      !.linesRead = @ + 1]
        /\ requests' = requests \o r.sent
        /\ stdout' = r.stdout
        /\ stderr' = r.stderr
        /\ ret' = [err |-> Nil, value |-> <<>>]
        /\ calls' = IF r.sent = <<>> THEN <<>> ELSE <<"http.post.chat">>
        /\ UNCHANGED envVars

\* scanner.Scan() reports false at the end of the input (scanner.Err() is nil).
EndOfInput ==
    /\ session.pc = "running"
    /\ op' = "endOfInput"
    /\ opts' = NoOpts
    /\ session' = [session EXCEPT !.pc = "ended"]
    /\ ret' = [err |-> scanStopped(FALSE).err, value |-> <<>>]
    /\ stdout' = scanStopped(FALSE).stdout
    /\ stderr' = <<>>
    /\ calls' = <<>>
    /\ UNCHANGED <<envVars, chatOptions, requests>>

\* scanner.Scan() reports false after a read error (scanner.Err() is non-nil).
ReadError ==
    /\ session.pc = "running"
    /\ op' = "readError"
    /\ opts' = NoOpts
    /\ session' = [session EXCEPT !.pc = "ended"]
    /\ ret' = [err |-> scanStopped(TRUE).err, value |-> <<>>]
    /\ stdout' = scanStopped(TRUE).stdout
    /\ stderr' = <<>>
    /\ calls' = <<>>
    /\ UNCHANGED <<envVars, chatOptions, requests>>

NextChat ==
    \/ \E flags \in ChatFlags : ChatCmd(flags)
    \/ \E line \in ChatLines :
          \E reply \in (IF IsMessageLine(line) THEN Replies ELSE {NoReply}) :
              ReadLine(line, reply)
    \/ EndOfInput
    \/ ReadError

SpecChat == InitChat /\ [][NextChat]_vars

-----------------------------------------------------------------------------
(* setParameter, applied to a ChatOptions and a param/value pair. *)

SetParams == {"temperature", "max_tokens", "top_p", "foo"}
SetValues == DecimalLiterals \cup IntegerLiterals \cup {"NaN", "abc"}

InitSetParameter ==
    /\ IdleEnvironment
    /\ chatOptions \in [WorkspaceName : {WorkspaceName}, Namespace : {"default"},
                        Temperature : {F(7), F(0), F(20)}, MaxTokens : {1024, 1},
                        TopP : {F(9), F(10)}]
    /\ session = IdleSession /\ requests = <<>> /\ stderr = <<>>
    /\ opts \in [param : SetParams, value : SetValues]
    /\ op = "none" /\ ret = NoRet /\ stdout = <<>> /\ calls = <<>>

SetParameter ==
    LET r == setParameter(chatOptions, opts.param, opts.value)
    IN  /\ op = "none"
        /\ op' = "setParameter"
        /\ chatOptions' = r.o
        /\ stdout' = r.stdout
        /\ UNCHANGED <<envVars, session, requests, stderr, opts, ret, calls>>

NextSetParameter == SetParameter
SpecSetParameter == InitSetParameter /\ [][NextSetParameter]_vars

-----------------------------------------------------------------------------
(* Properties of the chat session. *)

\* C2 (as claimed): end of input on standard input ends the session with
\* the outcome of /quit: startInteractiveSession returns nil.
C2_EndOfInputIsSuccess ==
    op = "endOfInput" => /\ session.pc = "ended"
                         /\ ~ret.err.isErr

\* What a value text denotes, as the claim reads it.
InRange(f, lo, hi) == FloatGE(f, F(lo)) /\ FloatLE(f, F(hi))
Accepted(param, value) ==
    \/ param = "temperature" /\ ~ParseFloat(value).err /\ InRange(ParseFloat(value).f, 0, 20)
    \/ param = "max_tokens" /\ ~Atoi(value).err /\ Atoi(value).n > 0
    \/ param = "top_p" /\ ~ParseFloat(value).err /\ InRange(ParseFloat(value).f, 0, 10)
AfterSet(o, param, value) ==
    CASE param = "temperature" -> [o EXCEPT !.Temperature = ParseFloat(value).f]
      [] param = "max_tokens" -> [o EXCEPT !.MaxTokens = Atoi(value).n]
      [] param = "top_p" -> [o EXCEPT !.TopP = ParseFloat(value).f]

\* C10: a rejected /set (unparsable or out-of-range value, or unknown
\* parameter) leaves Temperature, MaxTokens and TopP as they were; an
\* accepted one gives the named parameter the new value and leaves the
\* other two as they were.
C10_SetStep ==
    op' = "setParameter" =>
        IF Accepted(opts.param, opts.value)
        THEN chatOptions' = AfterSet(chatOptions, opts.param, opts.value)
        ELSE chatOptions' = chatOptions
C10_SetParameterFrame == [][C10_SetStep]_vars
\* /set temperature 1.5 took effect on options that held something else.
C10_Witness ==
    /\ op = "setParameter"
    /\ opts = [param |-> "temperature", value |-> "1.5"]
    /\ chatOptions.Temperature = F(15)
    /\ chatOptions.MaxTokens = 1 /\ chatOptions.TopP = F(10)

-----------------------------------------------------------------------------
(* The deploy command run against a cluster, again and again. *)

BaseDeployOptions ==
    [WorkspaceName |-> WorkspaceName, Namespace |-> "", Model |-> "phi-4",
     InstanceType |-> "", Count |-> 1, LabelSelector |-> {}, ModelAccessSecret |-> "",
     Adapters |-> <<>>, InferenceConfig |-> <<>>, EnableLoadBalancer |-> FALSE,
     Tuning |-> FALSE, TuningMethod |-> "qlora", ModelImage |-> "", InputURLs |-> <<>>,
     OutputImage |-> "", OutputImageSecret |-> "", TuningConfig |-> "",
     InputPVC |-> "", OutputPVC |-> "", DryRun |-> FALSE]

\* o with the fields of flags set.
WithFlags(o, flags) ==
    [f \in DOMAIN o |-> IF f \in DOMAIN flags THEN flags[f] ELSE o[f]]

\* The optional flags of a command line.
DeployFlagSets ==
    {[TuningMethod |-> "qlora"],
     [TuningMethod |-> ""],
     [Count |-> 0],
     [InstanceType |-> "Standard_NC6s_v3"],
     [ModelAccessSecret |-> "hf-token"],
     [Adapters |-> <<"adapter-1">>],
     [InferenceConfig |-> ConfigPath],
     [InferenceConfig |-> <<"my-config">>],
     [EnableLoadBalancer |-> TRUE],
     [LabelSelector |-> {<<"gpu", "a100">>}],
     [InferenceConfig |-> ConfigPath, LabelSelector |-> {<<"gpu", "a100">>}],
     [InferenceConfig |-> ConfigPath, EnableLoadBalancer |-> TRUE,
      ModelAccessSecret |-> "hf-token"],
     [InputURLs |-> <<"https://example.com/data.parquet">>],
     [OutputPVC |-> "model-output"],
     [OutputImageSecret |-> "push-secret"],
     [InputURLs |-> <<"https://example.com/data.parquet">>, OutputImage |-> "reg/img"],
     [InputPVC |-> "training-data", OutputPVC |-> "model-output"],
     [InputURLs |-> <<"https://example.com/data.parquet">>, InputPVC |-> "training-data",
      OutputImage |-> "reg/img", OutputPVC |-> "model-output",
      OutputImageSecret |-> "push-secret", TuningConfig |-> "tuning-cm",
      ModelImage |-> "reg/model"]}

DeployOptionsSet ==
    {WithFlags([BaseDeployOptions EXCEPT !.WorkspaceName = w, !.Model = m,
                                         !.Tuning = t, !.DryRun = d], flags) :
        w \in {"", WorkspaceName}, m \in {"", "phi-4", "bogus"},
        t \in BOOLEAN, d \in BOOLEAN, flags \in DeployFlagSets}

\* What the GET of the supported-model list can meet.
Fetch(transportErr, status, readErr, yamlErr, models) ==
    [transportErr |-> transportErr, status |-> status, readErr |-> readErr,
     yamlErr |-> yamlErr, models |-> models]
ListedModels ==
    <<KaitoModel("phi-4", "", "", 0, 0, <<>>),
      KaitoModel("llama-3.1-8b-instruct", "LLM", "vllm", 1, 2, <<"Llama">>)>>
FetchReplies ==
    {Fetch(TRUE, 0, FALSE, FALSE, <<>>),
     Fetch(FALSE, 404, FALSE, FALSE, <<>>),
     Fetch(FALSE, 200, TRUE, FALSE, <<>>),
     Fetch(FALSE, 200, FALSE, TRUE, <<>>),
     Fetch(FALSE, 200, FALSE, FALSE, <<>>),
     Fetch(FALSE, 200, FALSE, FALSE, ListedModels)}

\* Objects that are in the cluster before the command runs.
OldWorkspace ==
    [WorkspaceObject("default", WorkspaceName, FALSE, NoStatus) EXCEPT
        !.Object = [apiVersion |-> StrV("kaito.sh/v1beta1"), kind |-> StrV("Workspace"),
                    inference |-> MapV([preset |-> MapV([name |-> StrV("phi-3")])])]]
OldConfigMap ==
    [namespace |-> "default", name |-> <<WorkspaceName, "-inference-config">>,
     data |-> [k \in {"inference_config.yaml"} |-> "old: true"]]
FileStates ==
    {NoFiles,
     [path \in {ConfigPath} |-> File(TRUE, TRUE, "max-model-len: 1024")],
     [path \in {ConfigPath} |-> File(TRUE, FALSE, "")]}

InitDeploy ==
    /\ services = {}
    /\ dnsNames = {}
    /\ kubeNamespace = [err |-> FALSE, ns |-> ""]
    /\ \/ /\ restConfig = [err |-> FALSE, host |-> Host]
          /\ clientFail = "none"
          /\ workspaces \in {{}, {OldWorkspace}}
          /\ configMaps \in {{}, {OldConfigMap}}
          /\ apiFail \in {{}, {"create.workspaces"}, {"create.configmaps"},
                          {"update.configmaps"}}
          /\ files \in FileStates
       \/ /\ \/ restConfig = [err |-> TRUE, host |-> <<>>] /\ clientFail = "none"
             \/ restConfig = [err |-> FALSE, host |-> Host]
                /\ clientFail \in {"dynamic", "kubernetes"}
          /\ workspaces = {} /\ configMaps = {} /\ apiFail = {}
          /\ files \in FileStates
    /\ NoSession
    /\ op = "none" /\ opts \in DeployOptionsSet /\ ret = NoRet /\ stdout = <<>>
    /\ calls = <<>>

Deploy(o, fetch) ==
    \E r \in {DeployCmd(o, fetch)} :
        /\ op' = "deploy"
        /\ opts' = o
        /\ ret' = [err |-> r.err, value |-> <<>>, stage |-> r.stage]
        /\ stdout' = r.stdout
        /\ calls' = r.calls
        /\ workspaces' = r.workspaces
        /\ configMaps' = r.configMaps
        /\ UNCHANGED <<services, dnsNames, restConfig, kubeNamespace, clientFail,
                       apiFail, files, chatVars>>

\* The command line of Init is run, any number of times.
NextDeploy == \E fetch \in FetchReplies : Deploy(opts, fetch)

SpecDeploy == InitDeploy /\ [][NextDeploy]_vars

\* A run of deploy that returned an error (a panic returns nothing).
DeployReturnsError == op' = "deploy" /\ ret'.err.isErr /\ ret'.err # Panic

\* The ConfigMap deploy writes for the command line o from the file it names.
WrittenConfigMap(o) ==
    [namespace |-> "default", name |-> <<o.WorkspaceName, "-inference-config">>,
     data |-> [k \in {"inference_config.yaml"} |-> files[o.InferenceConfig].content]]

\* C3 as stated: a run of deploy that returns an error has created or modified
\* no cluster object, in particular no <workspace>-inference-config ConfigMap.
C3_ErrorStep ==
    DeployReturnsError =>
        /\ workspaces' = workspaces
        /\ configMaps' = configMaps
        /\ services' = services
C3_ErrorLeavesNothing == [][C3_ErrorStep]_vars

\* C3 amended: a run of deploy that returns an error has created or modified no
\* Workspace and no Service; the one object it can have created or updated is
\* the <workspace>-inference-config ConfigMap, and it has exactly when the
\* inference configuration names an existing file and the run fails at the
\* creation of the Workspace.
C3_AmendedStep ==
    DeployReturnsError =>
        /\ workspaces' = workspaces
        /\ services' = services
        /\ IF /\ ret'.err = Err("failed to create workspace")
              /\ opts'.InferenceConfig \in DOMAIN files
              /\ files[opts'.InferenceConfig].exists
           THEN configMaps' =
                    {x \in configMaps : x.name # WrittenConfigMap(opts').name}
                        \cup {WrittenConfigMap(opts')}
           ELSE configMaps' = configMaps
C3_ErrorLeavesOnlyConfigMap == [][C3_AmendedStep]_vars

\* A run that failed at the Workspace creation after it wrote the ConfigMap.
C3_Witness ==
    /\ op = "deploy"
    /\ ret.err = Err("failed to create workspace")
    /\ calls = <<"http.get.models", "k8s.create.configmaps", "k8s.create.workspaces">>
    /\ \E x \in configMaps :
          /\ x.name = <<opts.WorkspaceName, "-inference-config">>
          /\ x.data["inference_config.yaml"] = "max-model-len: 1024"
    /\ workspaces = {}

-----------------------------------------------------------------------------
(* One command of the plugin run from a shell: deploy, get-endpoint or chat. *)

InitCommands ==
    /\ workspaces \in {{}, {NamedWorkspace}}
    /\ services \in {{}, {ServiceObject("default", WorkspaceName, "ClusterIP",
                                        "10.0.0.5", <<>>)}}
    /\ configMaps = {}
    /\ dnsNames \in {{}, DNSPool}
    /\ restConfig = [err |-> FALSE, host |-> Host]
    /\ kubeNamespace = [err |-> FALSE, ns |-> ""]
    /\ clientFail = "none"
    /\ apiFail \in {{}, {"create.workspaces"}}
    /\ files \in FileStates
    /\ NoSession
    /\ op = "none" /\ opts = NoOpts /\ ret = NoRet /\ stdout = <<>> /\ calls = <<>>

NextCommands ==
    \/ op = "none" /\ \E o \in DeployOptionsSet : \E fetch \in FetchReplies :
                          Deploy(o, fetch)
    \/ op = "none" /\ \E o \in GetEndpointOptions : GetEndpoint(o)
    \/ NextChat

SpecCommands == InitCommands /\ [][NextCommands]_vars

RejectedByValidation ==
    op \in {"deploy", "chat", "get-endpoint"} /\ ret.stage = "validate" /\ ret.err.isErr

\* C4 as stated: a deploy, chat or get-endpoint invocation rejected by
\* validation has issued no HTTP request and no Kubernetes API request.
C4_NoCallBeforeValidationError == RejectedByValidation => calls = <<>>

\* C4 amended: a chat or get-endpoint invocation rejected by validation has
\* issued no HTTP request and no Kubernetes API request; a deploy invocation
\* rejected by validation has issued no Kubernetes API request, and no HTTP
\* request other than the one GET of the supported-model list, which it has
\* issued unless the workspace name or the model name is empty.
C4_OnlyModelListBeforeValidationError ==
    RejectedByValidation =>
        IF op = "deploy" /\ opts.WorkspaceName # "" /\ opts.Model # ""
        THEN calls = <<"http.get.models">>
        ELSE calls = <<>>

\* A deploy rejected for a flag conflict, after the model list was fetched.
C4_Witness ==
    /\ RejectedByValidation
    /\ op = "deploy"
    /\ ret.err = Errorf("tuning flag can only be used with --tuning enabled",
                        "input-urls")
    /\ calls = <<"http.get.models">>

-----------------------------------------------------------------------------
(* Properties of the chat session loop. *)

\* The line a ReadLine step read, trimmed, and what kind of line it is.
LineRead == TrimSpace(opts'.line)
IsCommandLine(input) == input # <<>> /\ Head(input) \in SlashWords
IsBlankLine(input) == input = <<>>

\* The POST is not issued when the payload cannot be marshalled (a NaN
\* parameter) or the authenticated client of an API-proxy endpoint cannot
\* be built.
IsAPIProxyURL(url) == \E i \in 1..Len(url) : url[i] = "/api/v1/namespaces/"
CannotPost ==
    \/ chatOptions.Temperature.nan
    \/ chatOptions.TopP.nan
    \/ (IsAPIProxyURL(session.endpoint) /\ (restConfig.err \/ clientFail = "transport"))

\* C11 (as claimed): in the session loop no request is sent for a line that,
\* trimmed, begins with "/" or is blank, and exactly one request is sent for
\* every other line.
C11_Step ==
    op' = "readLine" =>
        IF IsCommandLine(LineRead) \/ IsBlankLine(LineRead)
        THEN requests' = requests
        ELSE /\ Len(requests') = Len(requests) + 1
             /\ SubSeq(requests', 1, Len(requests)) = requests
C11_AmendedStep ==
    op' = "readLine" =>
        IF IsCommandLine(LineRead) \/ IsBlankLine(LineRead) \/ CannotPost
        THEN requests' = requests
        ELSE /\ Len(requests') = Len(requests) + 1
             /\ SubSeq(requests', 1, Len(requests)) = requests
             /\ Last(requests').endpoint = session.endpoint
             /\ Last(requests').payload.messages[1].content = LineRead
HasContent(json) ==
    /\ json.choices.isList
    /\ Len(json.choices.items) > 0
    /\ json.choices.items[1].isMap
    /\ json.choices.items[1].message.isMap
    /\ json.choices.items[1].message.content.isStr
FailingReply(reply) ==
    \/ reply.transportErr
    \/ reply.status # 200
    \/ reply.readErr
    \/ ~reply.json.valid
    \/ ~HasContent(reply.json)

\* The lines that end the session: /quit and /exit.
IsExitLine(line) ==
    Fields(line) # <<>> /\ Fields(line)[1] \in {"/quit", "/exit"}

-----------------------------------------------------------------------------
(* Properties of deploy --dry-run. *)

IsK8sCall(call) == call \in {"k8s.create.configmaps", "k8s.update.configmaps",
                             "k8s.create.workspaces", "k8s.get.workspaces",
                             "k8s.get.services"}
HasLine(lines, text) == \E i \in 1..Len(lines) : lines[i].doc[1] = text

\* The model named by a Workspace object: its inference or tuning preset.
PresetName(object) ==
    IF "inference" \in DOMAIN object THEN object.inference.m.preset.m.name
    ELSE object.tuning.m.preset.m.name

\* The printed Workspace document names the workspace and the model.
PrintsWorkspaceYAML(lines, o) ==
    \E i \in 1..Len(lines) :
        /\ lines[i].doc[1] = "Workspace YAML:"
        /\ lines[i].doc[2].apiVersion = StrV("kaito.sh/v1beta1")
        /\ lines[i].doc[2].kind = StrV("Workspace")
        /\ lines[i].doc[2].metadata.m.name = StrV(o.WorkspaceName)
        /\ PresetName(lines[i].doc[2]) = StrV(o.Model)

\* C13 (as claimed): a deploy with --dry-run that passes validation issues no
\* Kubernetes API call, leaves Workspaces and ConfigMaps as they are (also
\* when --inference-config names an existing file), prints "Dry-run mode"
\* and the kaito.sh/v1beta1 Workspace document naming the workspace and the
\* model, and returns success.
C13_Step ==
    (op' = "deploy" /\ opts'.DryRun /\ ret'.stage = "run") =>
        /\ \A i \in 1..Len(calls') : ~IsK8sCall(calls'[i])
        /\ UNCHANGED <<workspaces, configMaps, services>>
        /\ HasLine(stdout', "Dry-run mode: Showing what would be created")
        /\ PrintsWorkspaceYAML(stdout', opts')
        /\ ~ret'.err.isErr
C13_DryRun == [][C13_Step]_vars

-----------------------------------------------------------------------------
(* getSupportedModels, applied to what the fetch of the list can meet. *)

\* The entries a fetched supported_models.yaml may list.
ListedEntries ==
    {KaitoModel(name, type, runtime, minNodes, 0, <<>>) :
        name \in {"phi-4", ""}, type \in {"", "LLM"}, runtime \in {"", "transformers"},
        minNodes \in {0, 2}}
ModelFetches ==
    {Fetch(TRUE, 0, FALSE, FALSE, <<>>),
     Fetch(FALSE, 404, FALSE, FALSE, <<>>),
     Fetch(FALSE, 200, TRUE, FALSE, <<>>),
     Fetch(FALSE, 200, FALSE, TRUE, <<>>)}
    \cup {Fetch(FALSE, 200, FALSE, FALSE, models) :
              models \in SeqUpTo(ListedEntries, MaxModels)}

InitModels ==
    /\ IdleEnvironment
    /\ opts \in {[fetch |-> fetch] : fetch \in ModelFetches}
    /\ NoSession
    /\ op = "none" /\ ret = NoRet /\ stdout = <<>> /\ calls = <<>>

GetSupportedModels ==
    /\ op = "none"
    /\ op' = "getSupportedModels"
    /\ ret' = [err |-> Nil, value |-> getSupportedModels(opts.fetch)]
    /\ calls' = <<"http.get.models">>
    /\ UNCHANGED <<envVars, chatVars, opts, stdout>>

NextModels == GetSupportedModels
SpecModels == InitModels /\ [][NextModels]_vars

\* C14 (as claimed): getSupportedModels returns a non-empty list whose models
\* all have a non-empty Name, Type and Runtime, also when the fetch of the
\* official list fails or yields no models.
C14_NeverEmpty ==
    op = "getSupportedModels" =>
        /\ Len(ret.value) > 0
        /\ \A i \in 1..Len(ret.value) :
              /\ ret.value[i].Name # ""
              /\ ret.value[i].Type # ""
              /\ ret.value[i].Runtime # ""

-----------------------------------------------------------------------------
(* DeployOptions.Validate, applied to every combination of the mode flags. *)

\* Every choice of set or unset for the workspace name, the model, --tuning
\* and the eleven inference and tuning flags.
ModeFlagChoices ==
    [WorkspaceName : {"", WorkspaceName}, Model : {"phi-4", "bogus"}, Tuning : BOOLEAN,
     ModelAccessSecret : {"", "hf-token"}, Adapters : {<<>>, <<"adapter-1">>},
     InferenceConfig : {<<>>, <<"my-config">>}, EnableLoadBalancer : BOOLEAN,
     InputURLs : {<<>>, <<"https://example.com/data.parquet">>},
     OutputImage : {"", "reg/img"}, OutputImageSecret : {"", "push-secret"},
     TuningConfig : {"", "tuning-cm"}, InputPVC : {"", "training-data"},
     OutputPVC : {"", "model-output"}, ModelImage : {"", "reg/model"}]

InitValidate ==
    /\ IdleEnvironment
    /\ opts \in {[o |-> WithFlags(BaseDeployOptions, flags), fetch |-> fetch] :
                    flags \in ModeFlagChoices,
                    fetch \in {Fetch(FALSE, 200, FALSE, FALSE, ListedModels),
                               Fetch(TRUE, 0, FALSE, FALSE, <<>>)}}
    /\ NoSession
    /\ op = "none" /\ ret = NoRet /\ stdout = <<>> /\ calls = <<>>

Validate ==
    \E v \in {DeployOptions_Validate(opts.o, opts.fetch)} :
        /\ op = "none"
        /\ op' = "validate"
        /\ ret' = [err |-> v.err, value |-> <<>>]
        /\ calls' = v.calls
        /\ UNCHANGED <<envVars, chatVars, opts, stdout>>

NextValidate == Validate
SpecValidate == InitValidate /\ [][NextValidate]_vars

\* The model of the options is on the fetched list.
ModelSupported ==
    /\ ~opts.fetch.transportErr /\ opts.fetch.status = 200
    /\ ~opts.fetch.readErr /\ ~opts.fetch.yamlErr
    /\ \E i \in 1..Len(opts.fetch.models) : opts.fetch.models[i].Name = opts.o.Model

AnyInferenceFlag(o) ==
    \/ o.ModelAccessSecret # "" \/ o.Adapters # <<>>
    \/ o.InferenceConfig # <<>> \/ o.EnableLoadBalancer
AnyTuningFlag(o) ==
    \/ o.InputURLs # <<>> \/ o.OutputImage # "" \/ o.OutputImageSecret # ""
    \/ o.TuningConfig # "" \/ o.InputPVC # "" \/ o.OutputPVC # "" \/ o.ModelImage # ""

\* C15: for options with a workspace name and a supported model, Validate
\* returns an error iff (1) --tuning with an inference flag, (2) no --tuning
\* with a tuning flag, (3) --tuning without input-urls and input-pvc, or
\* (4) --tuning without output-image and output-pvc.
C15_ValidateIff ==
    (op = "validate" /\ opts.o.WorkspaceName # "" /\ ModelSupported) =>
        ( ret.err.isErr <=>
            \/ (opts.o.Tuning /\ AnyInferenceFlag(opts.o))
            \/ (~opts.o.Tuning /\ AnyTuningFlag(opts.o))
            \/ (opts.o.Tuning /\ opts.o.InputURLs = <<>> /\ opts.o.InputPVC = "")
            \/ (opts.o.Tuning /\ opts.o.OutputImage = "" /\ opts.o.OutputPVC = "") )

\* A tuning command line with input and output and no inference flag, accepted.
C15_Witness ==
    /\ op = "validate"
    /\ opts.o.WorkspaceName # "" /\ ModelSupported
    /\ opts.o.Tuning
    /\ opts.o.InputPVC # "" /\ opts.o.OutputImage # "" /\ opts.o.ModelImage # ""
    /\ ~ret.err.isErr

-----------------------------------------------------------------------------
(* buildWorkspace, applied to every combination of the options. *)

\* Every choice of set or unset for the mode, the node selector and the
\* inference and tuning flags; --inference-config names the file that exists
\* or a ConfigMap.
BuildChoices ==
    [Tuning : BOOLEAN, LabelSelector : {{}, {<<"gpu", "a100">>}},
     ModelAccessSecret : {"", "hf-token"}, Adapters : {<<>>, <<"adapter-1", "adapter-2">>},
     InferenceConfig : {<<>>, ConfigPath, <<"my-config">>}, EnableLoadBalancer : BOOLEAN,
     InputURLs : {<<>>, <<"https://example.com/a.parquet", "https://example.com/b.parquet">>},
     OutputImage : {"", "reg/img"}, OutputImageSecret : {"", "push-secret"},
     TuningConfig : {"", "tuning-cm"}, InputPVC : {"", "training-data"},
     OutputPVC : {"", "model-output"}, ModelImage : {"", "reg/model"}]
BuildNames ==
    {[WorkspaceName |-> WorkspaceName, Namespace |-> "default"],
     [WorkspaceName |-> WorkspaceName, Namespace |-> ""],
     [WorkspaceName |-> "", Namespace |-> ""]}

InitBuild ==
    /\ workspaces = {} /\ services = {} /\ configMaps = {}
    /\ dnsNames = {}
    /\ restConfig = [err |-> FALSE, host |-> Host]
    /\ kubeNamespace = [err |-> FALSE, ns |-> ""]
    /\ clientFail = "none"
    /\ apiFail = {}
    /\ files = [path \in {ConfigPath} |-> File(TRUE, TRUE, "max-model-len: 1024")]
    /\ opts \in {[o |-> WithFlags(WithFlags(BaseDeployOptions, flags), names)] :
                    flags \in BuildChoices, names \in BuildNames}
    /\ NoSession
    /\ op = "none" /\ ret = NoRet /\ stdout = <<>> /\ calls = <<>>

BuildWorkspace ==
    \E r \in {buildWorkspace(opts.o)} :
        /\ op = "none"
        /\ op' = "buildWorkspace"
        /\ ret' = [err |-> IF r.panic THEN Panic ELSE Nil,
                   value |-> IF r.panic THEN EmptyMap ELSE r.Object]
        /\ UNCHANGED <<envVars, chatVars, opts, stdout, calls>>

NextBuild == BuildWorkspace
SpecBuild == InitBuild /\ [][NextBuild]_vars

\* buildWorkspace returned an object (it did not panic).
Built == op = "buildWorkspace" /\ ~ret.err.isErr

\* GetName and GetNamespace of an unstructured object: "" when absent.
MetadataField(object, field) ==
    IF "metadata" \in DOMAIN object /\ field \in DOMAIN object.metadata.m
    THEN object.metadata.m[field].text
    ELSE ""

HasField(value, field) == value.t = "map" /\ field \in DOMAIN value.m
FieldIs(value, field, expected) == HasField(value, field) /\ value.m[field] = expected

\* C17 (as claimed): the tuning block of a tuning-mode object reflects every
\* option that is set: input.urls lists InputURLs in order, input.pvc is
\* InputPVC, output.image is OutputImage, output.pvc is OutputPVC,
\* output.imageSecret is OutputImageSecret, config is TuningConfig, and
\* preset.presetOptions.image is present iff ModelImage is set.
C17_TuningReflectsOptions ==
    (Built /\ opts.o.Tuning) =>
        LET o == opts.o
            tuning == ret.value.tuning
            input == tuning.m.input
            output == tuning.m.output
        IN  /\ o.InputURLs # <<>> =>
                  HasField(tuning, "input") /\ FieldIs(input, "urls", ListV(o.InputURLs))
            /\ o.InputPVC # "" =>
                  HasField(tuning, "input") /\ FieldIs(input, "pvc", StrV(o.InputPVC))
            /\ o.OutputImage # "" =>
                  HasField(tuning, "output") /\ FieldIs(output, "image", StrV(o.OutputImage))
            /\ o.OutputPVC # "" =>
                  HasField(tuning, "output") /\ FieldIs(output, "pvc", StrV(o.OutputPVC))
            /\ o.OutputImageSecret # "" =>
                  /\ HasField(tuning, "output")
                  /\ FieldIs(output, "imageSecret", StrV(o.OutputImageSecret))
            /\ o.TuningConfig # "" => FieldIs(tuning, "config", StrV(o.TuningConfig))
            /\ ( /\ HasField(tuning.m.preset, "presetOptions")
                 /\ HasField(tuning.m.preset.m.presetOptions, "image") )
               <=> o.ModelImage # ""

-----------------------------------------------------------------------------
(* createInferenceConfigMap, called again and again while the file changes. *)

ConfigFileStates ==
    {File(FALSE, FALSE, ""), File(TRUE, FALSE, ""),
     File(TRUE, TRUE, "max-model-len: 1024"), File(TRUE, TRUE, "max-model-len: 2048")}
ConfigMapArgs ==
    [configFile : {ConfigPath, <<"missing.yaml">>},
     workspaceName : {WorkspaceName, "other-ws"},
     namespace : {"default", "team"}]

InitConfigMap ==
    /\ workspaces = {} /\ services = {}
    /\ configMaps \in {{}, {OldConfigMap}}
    /\ dnsNames = {}
    /\ restConfig = [err |-> FALSE, host |-> Host]
    /\ kubeNamespace = [err |-> FALSE, ns |-> ""]
    /\ clientFail = "none"
    /\ apiFail \in {{}, {"create.configmaps"}, {"update.configmaps"}}
    /\ files \in {[path \in {ConfigPath} |-> f] : f \in ConfigFileStates}
    /\ NoSession
    /\ op = "none" /\ opts = NoOpts /\ ret = NoRet /\ stdout = <<>> /\ calls = <<>>

CreateInferenceConfigMap(args) ==
    \E r \in {createInferenceConfigMap(args.configFile, args.workspaceName,
                                        args.namespace)} :
        /\ op' = "createInferenceConfigMap"
        /\ opts' = args
        /\ ret' = [err |-> r.err, value |-> <<>>]
        /\ configMaps' = r.configMaps
        /\ calls' = r.calls
        /\ UNCHANGED <<workspaces, services, dnsNames, restConfig, kubeNamespace,
                       clientFail, apiFail, files, chatVars, stdout>>

\* The user rewrites, removes or protects the file between two calls.
WriteFile(f) ==
    /\ files[ConfigPath] # f
    /\ files' = [files EXCEPT ![ConfigPath] = f]
    /\ op' = "writeFile"
    /\ opts' = NoOpts
    /\ ret' = NoRet
    /\ calls' = <<>>
    /\ UNCHANGED <<workspaces, services, configMaps, dnsNames, restConfig,
                   kubeNamespace, clientFail, apiFail, chatVars, stdout>>

NextConfigMap ==
    \/ \E args \in ConfigMapArgs : CreateInferenceConfigMap(args)
    \/ \E f \in ConfigFileStates : WriteFile(f)
SpecConfigMap == InitConfigMap /\ [][NextConfigMap]_vars

\* The file of a call can be read, and what it holds.
Readable(path) == path \in DOMAIN files /\ files[path].exists /\ files[path].readable
IsNamed(x, namespace, name) == x.namespace = namespace /\ x.name = name

\* C18: createInferenceConfigMap is create-or-update: when it returns
\* success, the ConfigMap <workspace>-inference-config of the namespace
\* holds the file's contents under inference_config.yaml, whether or not it
\* existed before, and no other ConfigMap has changed; when the file cannot
\* be read it returns an error and creates or modifies nothing.
C18_CallStep ==
    op' = "createInferenceConfigMap" =>
        LET name == <<opts'.workspaceName, "-inference-config">>
            namespace == opts'.namespace
        IN  /\ ~ret'.err.isErr =>
                  /\ Readable(opts'.configFile)
                  /\ \E x \in configMaps' :
                        /\ IsNamed(x, namespace, name)
                        /\ x.data["inference_config.yaml"] = files[opts'.configFile].content
                        /\ \A y \in configMaps' : IsNamed(y, namespace, name) => y = x
                  /\ {x \in configMaps' : ~IsNamed(x, namespace, name)}
                        = {x \in configMaps : ~IsNamed(x, namespace, name)}
            /\ ~Readable(opts'.configFile) =>
                  /\ ret'.err.isErr
                  /\ configMaps' = configMaps
                  /\ calls' = <<>>
C18_CreateOrUpdate == [][C18_CallStep]_vars

\* A call that found the ConfigMap of an earlier call in place and updated
\* it: it holds the contents the file has now.
C18_Witness ==
    /\ op = "createInferenceConfigMap"
    /\ ~ret.err.isErr
    /\ calls = <<"k8s.create.configmaps", "k8s.update.configmaps">>
    /\ files[ConfigPath].content = "max-model-len: 2048"
    /\ configMaps = {ConfigMapObject("team", <<"other-ws", "-inference-config">>,
                                     "max-model-len: 2048")}

-----------------------------------------------------------------------------
(* ChatOptions.validate, applied to option values in, on and off the bounds. *)

InitChatValidate ==
    /\ IdleEnvironment
    /\ chatOptions \in [WorkspaceName : {"", WorkspaceName}, Namespace : {""},
                        Temperature : {F(-1), F(0), F(7), F(20), F(21), NaN},
                        MaxTokens : {-5, 0, 1, 1024, 4096},
                        TopP : {F(-1), F(0), F(9), F(10), F(11), NaN}]
    /\ session = IdleSession /\ requests = <<>> /\ stderr = <<>>
    /\ op = "none" /\ opts = NoOpts /\ ret = NoRet /\ stdout = <<>> /\ calls = <<>>

ValidateChat ==
    /\ op = "none"
    /\ op' = "validateChat"
    /\ ret' = [err |-> ChatOptions_validate(chatOptions), value |-> <<>>]
    /\ UNCHANGED <<envVars, chatVars, opts, stdout, calls>>

NextChatValidate == ValidateChat
SpecChatValidate == InitChatValidate /\ [][NextChatValidate]_vars

\* C19 (as claimed): validate returns an error iff the workspace name is
\* empty, the temperature is outside [0.0, 2.0], top-p is outside [0.0, 1.0]
\* or max-tokens is not positive; the error reported is the first of these,
\* in that order.
C19_ValidateIff ==
    op = "validateChat" =>
        ret.err =
            IF chatOptions.WorkspaceName = "" THEN Err("workspace name is required")
            ELSE IF ~InRange(chatOptions.Temperature, 0, 20)
            THEN Err("temperature must be between 0.0 and 2.0")
            ELSE IF ~InRange(chatOptions.TopP, 0, 10)
            THEN Err("top-p must be between 0.0 and 1.0")
            ELSE IF chatOptions.MaxTokens <= 0
            THEN Err("max-tokens must be greater than 0")
            ELSE Nil

-----------------------------------------------------------------------------
(* Properties of the chat requests' authentication. *)

\* The two endpoints a session of the chat options can have resolved.
SessionProxyEndpoint ==
    APIProxyURL(TrimSuffix(restConfig.host, "/"), chatOptions.Namespace,
                chatOptions.WorkspaceName) \o <<"/v1/chat/completions">>
SessionClusterEndpoint ==
    clusterURL(chatOptions.WorkspaceName, chatOptions.Namespace)
        \o <<"/v1/chat/completions">>

\* C20: a chat request carries the cluster credentials iff its endpoint is
\* an API-proxy URL (it contains /api/v1/namespaces/), which is a URL of the
\* API server of the REST config; a request to the cluster-internal endpoint
\* is sent with the plain client.
C20_CredentialsOnlyToProxy ==
    \A i \in 1..Len(requests) :
        /\ requests[i].authenticated <=> IsAPIProxyURL(requests[i].endpoint)
        /\ requests[i].authenticated <=> requests[i].endpoint = SessionProxyEndpoint
        /\ requests[i].endpoint = SessionClusterEndpoint => ~requests[i].authenticated
        /\ requests[i].endpoint \in {SessionProxyEndpoint, SessionClusterEndpoint}

\* A session on the API-proxy endpoint that has sent two authenticated
\* requests.
C20_Witness ==
    /\ Len(requests) = 2
    /\ requests[1].authenticated /\ requests[2].authenticated
    /\ IsAPIProxyURL(requests[2].endpoint)
    /\ requests[2].endpoint[1] = "https://"
    /\ requests[2].endpoint[2] = "api.example.com"

-----------------------------------------------------------------------------
(* Properties of the Endpoint Enumerator's entries. *)

\* The Service the last Enumerator call was about, when the cluster has it.
EnumeratedService == Lookup(services, opts.Namespace, opts.WorkspaceName)
Enumerated ==
    /\ op = "getAllEndpoints"
    /\ Exists(services, opts.Namespace, opts.WorkspaceName)
HasEntryOfType(endpoints, type) ==
    \E i \in 1..Len(endpoints) : endpoints[i].Type = type
HasClusterIP(svc) == svc.ClusterIP # "" /\ svc.ClusterIP # "None"

\* C21 (as claimed): the list has a ClusterIP entry iff the Service has a
\* cluster IP (not "" and not "None") and the DNS name
\* <workspace>.<namespace>.svc.cluster.local resolves; a Service with
\* clusterIP "None" and no LoadBalancer endpoint gives, when the API-server
\* base is known, exactly the APIProxy entry with access cluster.
C21_ClusterIPEntry ==
    Enumerated =>
        /\ HasEntryOfType(ret.value, "ClusterIP")
              <=> ( /\ HasClusterIP(EnumeratedService)
                    /\ LookupHost(serviceHost(opts.WorkspaceName, opts.Namespace)) )
        /\ ( /\ EnumeratedService.ClusterIP = "None"
             /\ ~HasEntryOfType(ret.value, "LoadBalancer")
             /\ ~restConfig.err )
           => /\ ~ret.err.isErr
              /\ Len(ret.value) = 1
              /\ ret.value[1].Type = "APIProxy"
              /\ ret.value[1].Access = "cluster"

\* The ingress entries that expose an IP or a hostname, and the address of
\* one: its IP, or its hostname when it has no IP.
Resolving(ingressList) ==
    {i \in 1..Len(ingressList) : ingressList[i].IP # "" \/ ingressList[i].Hostname # ""}
FirstResolving(ingressList) ==
    CHOOSE i \in Resolving(ingressList) : \A j \in Resolving(ingressList) : i <= j
AddressOf(ingress) == IF ingress.IP # "" THEN ingress.IP ELSE ingress.Hostname
LoadBalancerEntries(endpoints) ==
    {i \in 1..Len(endpoints) : endpoints[i].Type = "LoadBalancer"}

\* C22: a LoadBalancer entry is listed only for a Service of type
\* LoadBalancer and comes from one ingress entry, the first in the list that
\* has an IP or else a hostname, as http://<ip-or-host>:80; later entries are
\* not used; when no entry has either, no LoadBalancer entry is listed and
\* the Enumerator still succeeds with its other entries.
C22_LoadBalancerEntry ==
    Enumerated =>
        LET svc == EnumeratedService
            found == svc.Type = "LoadBalancer" /\ Resolving(svc.Ingress) # {}
        IN  /\ Cardinality(LoadBalancerEntries(ret.value)) = (IF found THEN 1 ELSE 0)
            /\ \A i \in LoadBalancerEntries(ret.value) :
                  /\ ret.value[i].URL =
                        <<"http://", AddressOf(svc.Ingress[FirstResolving(svc.Ingress)]), ":80">>
                  /\ ret.value[i].Access = "external"
            /\ (~found /\ ~restConfig.err) => ~ret.err.isErr /\ Len(ret.value) >= 1

\* A LoadBalancer Service whose first ingress entry is empty and whose
\* second has only a hostname: the hostname is listed.
C22_Witness ==
    /\ Enumerated
    /\ EnumeratedService.Type = "LoadBalancer"
    /\ Len(EnumeratedService.Ingress) >= 2
    /\ EnumeratedService.Ingress[1] = Ingress("", "")
    /\ EnumeratedService.Ingress[2] = Ingress("", "lb.example.com")
    /\ ret.value[1].URL = <<"http://", "lb.example.com", ":80">>

-----------------------------------------------------------------------------
(* The API-proxy URL of get-endpoint and of chat. *)

\* The API-server base: the configured host less one trailing slash.
IsBaseOf(base, host) ==
    \/ host = base \o <<"/">>
    \/ host = base /\ (Len(host) = 0 \/ Last(host) # "/")

NamespaceOrDefault(namespace) == IF namespace = "" THEN "default" ELSE namespace

\* The URL the claim gives for the options and the configured host.
IsClaimedProxyURL(url, o) ==
    \E base \in {Host, Host \o <<"/">>} :
        /\ IsBaseOf(base, restConfig.host)
        /\ url = APIProxyURL(base, NamespaceOrDefault(o.Namespace), o.WorkspaceName)

\* C23: the API-proxy URL built by get-endpoint and the one built by chat
\* are both <base>/api/v1/namespaces/<namespace>/services/<name>:80/proxy
\* with the namespace defaulted to "default" and the trailing slash of the
\* base removed, also where the enumerator lists it and where chat falls
\* back to it, and the two builders give the same result for the same
\* options and configuration.
C23_APIProxyURL ==
    /\ (op \in {"getAPIProxyEndpoint", "chat.getAPIProxyEndpoint"} /\ ~restConfig.err) =>
            ~ret.err.isErr /\ IsClaimedProxyURL(ret.value, opts)
    /\ op = "getAllEndpoints" =>
            \A i \in 1..Len(ret.value) :
                ret.value[i].Type = "APIProxy" => IsClaimedProxyURL(ret.value[i].URL, opts)
    /\ (op = "getInferenceEndpoint" /\ ~ret.err.isErr
            /\ ~LookupHost(serviceHost(opts.WorkspaceName, opts.Namespace) \o <<":80">>)) =>
            \E url \in {Front(ret.value)} :
                /\ IsClaimedProxyURL(url, opts)
                /\ ret.value = url \o <<"/v1/chat/completions">>
    /\ \A o \in EnumOptions :
            getAPIProxyEndpoint(o) = ChatOptions_getAPIProxyEndpoint(o)

\* chat's builder was called with an empty namespace and a configured host
\* that ends in a slash.
C23_Witness ==
    /\ op = "chat.getAPIProxyEndpoint" /\ ~ret.err.isErr
    /\ opts.Namespace = ""
    /\ restConfig.host = Host \o <<"/">>
    /\ ret.value = APIProxyURL(Host, "default", opts.WorkspaceName)

-----------------------------------------------------------------------------
(* The model name chat displays. *)

\* What a Workspace may hold at one of the three places: nothing, an empty
\* string, a name, null, a number, or a parent that is not a map.
SpecNameChoices == {"absent", "empty", "phi-4", "null", "parentNotMap"}
PresetNameChoices == {"absent", "empty", "llama", "7"}
ModelFieldChoices == {"absent", "empty", "falcon", "null"}

FieldValue(choice) ==
    IF choice = "empty" THEN StrV("")
    ELSE IF choice = "null" THEN NilV
    ELSE IF choice = "7" THEN NumV("7")
    ELSE StrV(choice)

\* The text a choice populates the place with, "" when it does not.
Populates(choice) ==
    IF choice \in {"absent", "empty", "null", "parentNotMap"} THEN "" ELSE choice

ModelNameObject(specName, presetName, modelField) ==
    LET inferenceKeys == (IF presetName = "absent" THEN {} ELSE {"preset"}) \cup
                         (IF modelField = "absent" THEN {} ELSE {"model"})
        inference == [k \in inferenceKeys |->
                         IF k = "preset" THEN MapV([name |-> FieldValue(presetName)])
                         ELSE FieldValue(modelField)]
        specValue == IF specName = "parentNotMap"
                     THEN MapV([inference |-> StrV("phi-4")])
                     ELSE MapV([inference |->
                                   MapV([preset |-> MapV([name |-> FieldValue(specName)])])])
        keys == (IF specName = "absent" THEN {} ELSE {"spec"}) \cup
                (IF inferenceKeys = {} THEN {} ELSE {"inference"})
    IN  [k \in keys |-> IF k = "spec" THEN specValue ELSE MapV(inference)]

ModelNameWorkspace(specName, presetName, modelField) ==
    [WorkspaceObject("default", WorkspaceName, FALSE, NoStatus) EXCEPT
        !.Object = ModelNameObject(specName, presetName, modelField)]

ModelNameWorkspaces ==
    {ModelNameWorkspace(a, b, c) :
        a \in SpecNameChoices, b \in PresetNameChoices, c \in ModelFieldChoices}

InitModelName ==
    /\ workspaces \in {{}} \cup {{w} : w \in ModelNameWorkspaces}
    /\ services \in {{}, {ServiceObject("default", WorkspaceName, "ClusterIP", "10.0.0.5", <<>>)}}
    /\ configMaps = {}
    /\ dnsNames \in {{}, DNSPool}
    /\ restConfig = [err |-> FALSE, host |-> Host]
    /\ kubeNamespace = [err |-> FALSE, ns |-> ""]
    /\ clientFail \in {"none", "dynamic"}
    /\ apiFail \in {{}, {"get.workspaces"}}
    /\ files = NoFiles
    /\ NoSession
    /\ op = "none" /\ opts = NoOpts /\ ret = NoRet /\ stdout = <<>> /\ calls = <<>>

NextModelName ==
    \/ \E flags \in ChatFlags : ChatCmd(flags)
    \/ ReadLine(<<"/model">>, NoReply)
    \/ EndOfInput

SpecModelName == InitModelName /\ [][NextModelName]_vars

\* The Workspace can be fetched.
WorkspaceFetched ==
    workspaces # {} /\ clientFail # "dynamic" /\ "get.workspaces" \notin apiFail

\* The name the claim gives: the first populated of the three places, and
\* "Unknown" when none is or the Workspace cannot be fetched.
IsClaimedModelName(name) ==
    IF ~WorkspaceFetched THEN name = "Unknown"
    ELSE \E a \in SpecNameChoices, b \in PresetNameChoices, c \in ModelFieldChoices :
            /\ workspaces = {ModelNameWorkspace(a, b, c)}
            /\ name = (IF Populates(a) # "" THEN Populates(a)
                       ELSE IF Populates(b) # "" THEN Populates(b)
                       ELSE IF Populates(c) # "" THEN Populates(c)
                       ELSE "Unknown")

SessionStarted == session.pc # "idle" /\ session.endpoint # NoURL

\* C24: the model name of a session is the first populated value of
\* spec.inference.preset.name, inference.preset.name and inference.model, in
\* that order, and "Unknown" when none is populated or the Workspace cannot
\* be fetched; the session starts whenever the flags are valid and the
\* endpoint resolves, whatever became of the model name; /model shows it.
C24_ModelName ==
    /\ op = "chat" =>
            (SessionStarted <=>
                /\ ~ChatOptions_validate(opts).isErr
                /\ services # {})
    /\ SessionStarted => IsClaimedModelName(session.modelName)
    /\ (op = "chat" /\ SessionStarted) =>
            stdout = <<TextLine("Connected to workspace",
                                <<opts.WorkspaceName, session.modelName>>)>>
    /\ (op = "readLine" /\ opts.line = <<"/model">>) =>
            /\ Len(stdout) = 1
            /\ stdout[1].doc[1] = "Current model"
            /\ IsClaimedModelName(stdout[1].doc[2])

\* A session started on a Workspace with an empty spec.inference.preset.name,
\* a top-level preset name and a model field: the preset name is shown.
C24_Witness ==
    /\ op = "chat" /\ SessionStarted
    /\ workspaces = {ModelNameWorkspace("empty", "llama", "falcon")}
    /\ WorkspaceFetched
    /\ session.modelName = "llama"

\* A session started although the Workspace could not be fetched.
C24_WitnessUnknown ==
    /\ op = "chat" /\ SessionStarted
    /\ ~WorkspaceFetched
    /\ session.modelName = "Unknown"

-----------------------------------------------------------------------------
(* The inference parameters of a session. *)

\* C25 (as claimed): in a session, which starts only after validate accepted
\* the flags, and after any lines read, Temperature is within [0.0, 2.0],
\* TopP within [0.0, 1.0] and MaxTokens above 0.
C25_SessionParameters ==
    SessionStarted =>
        /\ FloatGE(chatOptions.Temperature, F(0)) /\ FloatLE(chatOptions.Temperature, F(20))
        /\ FloatGE(chatOptions.TopP, F(0)) /\ FloatLE(chatOptions.TopP, F(10))
        /\ chatOptions.MaxTokens > 0

-----------------------------------------------------------------------------
(* What a chat request carries. *)

Parameters(o) ==
    [temperature |-> o.Temperature, max_tokens |-> o.MaxTokens, top_p |-> o.TopP]

\* The parameters in effect after a line, given those before it: the /set
\* lines with a value in range replace one of them.
InEffectAfter(line, params) ==
    IF line = <<"/set", " ", "temperature", " ", "1.5">>
    THEN [params EXCEPT !.temperature = F(15)]
    ELSE IF line = <<"/set", " ", "max_tokens", " ", "512">>
    THEN [params EXCEPT !.max_tokens = 512]
    ELSE IF line = <<"/set", " ", "top_p", " ", "1.0", " ", "please">>
    THEN [params EXCEPT !.top_p = F(10)]
    ELSE params

\* The line less its leading and trailing blanks.
IsTrimmed(text, line) ==
    /\ \E before, after \in SeqUpTo({" "}, 2) : line = before \o text \o after
    /\ text # <<>> /\ Head(text) # " " /\ Last(text) # " "

C26_Step ==
    /\ (op' = "chat" /\ SessionStarted') => Parameters(chatOptions') = Parameters(opts')
    /\ op' = "readLine" =>
            Parameters(chatOptions') = InEffectAfter(opts'.line, Parameters(chatOptions))
    /\ requests' # requests =>
            /\ op' = "readLine"
            /\ Len(requests') = Len(requests) + 1
            /\ SubSeq(requests', 1, Len(requests)) = requests
            /\ \E payload \in {Last(requests').payload} :
                    /\ Len(payload.messages) = 1
                    /\ payload.messages[1].role = "user"
                    /\ IsTrimmed(payload.messages[1].content, opts'.line)
                    /\ DOMAIN payload = {"messages", "temperature", "max_tokens", "top_p"}
                    /\ [k \in {"temperature", "max_tokens", "top_p"} |-> payload[k]]
                            = Parameters(chatOptions)

\* C26: every chat request carries exactly one message, of role user and
\* with the trimmed line just read as its content, and the temperature,
\* max_tokens and top_p in effect when the line is read: the start-up flags,
\* each replaced by the most recent accepted /set of that parameter.
C26_RequestPayload == [][C26_Step]_vars

\* After an accepted /set temperature 1.5 in a session started at 0.7, a
\* line with blanks around it was sent: trimmed, alone, at temperature 1.5.
C26_Witness ==
    /\ op = "readLine"
    /\ opts.line = <<" ", "what", " ", "is", " ", "AI?", " ">>
    /\ session.linesRead = 2
    /\ Len(requests) = 1
    /\ requests[1].payload =
            [messages |-> <<[role |-> "user",
                             content |-> <<"what", " ", "is", " ", "AI?">>]>>,
             temperature |-> F(15), max_tokens |-> 1024, top_p |-> F(9)]

-----------------------------------------------------------------------------
(* chat's endpoint resolution against the Endpoint Enumerator. *)

\* What the enumerator returns for the same options in the same cluster
\* and environment.
EnumeratorResult == getAllEndpoints(opts)

\* C27 (as claimed): whenever the enumerator succeeds with an APIProxy or a
\* ClusterIP entry, chat's endpoint resolution for the same inputs succeeds
\* too, and the URL it selects, less /v1/chat/completions, is the URL of one
\* of the enumerator's entries.
C27_ChatAgreesWithEnumerator ==
    (/\ op = "getInferenceEndpoint"
     /\ ~EnumeratorResult.err.isErr
     /\ \/ HasEntryOfType(EnumeratorResult.endpoints, "APIProxy")
        \/ HasEntryOfType(EnumeratorResult.endpoints, "ClusterIP")) =>
        /\ ~ret.err.isErr
        /\ \E i \in 1..Len(EnumeratorResult.endpoints) :
                ret.value = EnumeratorResult.endpoints[i].URL \o <<"/v1/chat/completions">>

-----------------------------------------------------------------------------
(* The status command against the readiness gate. *)

\* C28 (as claimed): on every conditions list the status summary and the
\* readiness gate agree: isWorkspaceReady is true exactly when status
\* reports "True" for both Resource Ready and Inference Ready.
C28_StatusAgreesWithGate ==
    (op = "printConditionStatuses" /\ stdout # <<>>) =>
        ( isWorkspaceReady(opts.status) <=>
            /\ stdout[1] = TextLine("Resource Ready", <<"True">>)
            /\ stdout[2] = TextLine("Inference Ready", <<"True">>) )

-----------------------------------------------------------------------------
(* models describe, applied to a name and to what its two fetches meet. *)

DescribeNames == {"phi-4", "llama-3.1-8b-instruct", "bogus", ""}

InitDescribe ==
    /\ IdleEnvironment
    /\ opts \in [modelName : DescribeNames, lookupFetch : FetchReplies,
                  validateFetch : FetchReplies]
    /\ NoSession
    /\ op = "none" /\ ret = NoRet /\ stdout = <<>> /\ calls = <<>>

RunModelsDescribe ==
    LET r == runModelsDescribe(opts.modelName, opts.lookupFetch, opts.validateFetch)
    IN  /\ op = "none"
        /\ op' = "runModelsDescribe"
        /\ ret' = [err |-> r.err, value |-> <<>>]
        /\ stdout' = r.stdout
        /\ calls' = r.calls
        /\ UNCHANGED <<envVars, chatVars, opts>>

NextDescribe == RunModelsDescribe
SpecDescribe == InitDescribe /\ [][NextDescribe]_vars

\* The details of a model of that name were printed.
PrintedDetailsOf(name) ==
    /\ stdout # <<>>
    /\ stdout[1] = TextLine("Model", <<name>>)

\* C29 (as claimed): models describe <name> returns success only if it
\* printed the details of a model named <name>, whatever its two fetches
\* of the model list meet.
C29_DescribeSuccess ==
    (op = "runModelsDescribe" /\ ~ret.err.isErr) => PrintedDetailsOf(opts.modelName)

-----------------------------------------------------------------------------
(* deploy, run again. *)

\* The run just made passed validation, was no dry run, and met a cluster
\* that can be reached and refuses no request.
RanAgainstCluster ==
    /\ op' = "deploy" /\ ret'.stage = "run" /\ ~opts'.DryRun
    /\ ~restConfig.err /\ clientFail = "none" /\ apiFail = {}

C30_Step ==
    /\ (RanAgainstCluster /\ op = "deploy" /\ ~ret.err.isErr) =>
            /\ ~ret'.err.isErr
            /\ workspaces' = workspaces
            /\ configMaps' = configMaps
            /\ stdout' = <<TextLine("Workspace already exists", <<opts'.WorkspaceName>>)>>
    /\ (/\ RanAgainstCluster
        /\ Exists(workspaces, "default", opts'.WorkspaceName)
        /\ Last(calls') = "k8s.create.workspaces") =>
            /\ ~ret'.err.isErr
            /\ workspaces' = workspaces

\* C30: a valid deploy without --dry-run that has returned success, run
\* again with the same options and file contents against a cluster that
\* serves its requests, returns success again and leaves the Workspace and
\* the <workspace>-inference-config ConfigMap as the first run left them;
\* a create call that meets an existing Workspace is reported as success
\* and leaves that Workspace as it was.
C30_DeployIdempotent == [][C30_Step]_vars

\* A second successful run with an inference-config file: the ConfigMap
\* written by the first run and the Workspace it created are in place.
C30_Witness ==
    /\ op = "deploy" /\ ~ret.err.isErr /\ ~opts.DryRun
    /\ apiFail = {}
    /\ stdout = <<TextLine("Workspace already exists", <<opts.WorkspaceName>>)>>
    /\ calls = <<"http.get.models", "k8s.create.configmaps", "k8s.update.configmaps",
                 "k8s.create.workspaces">>
    /\ configMaps = {WrittenConfigMap(opts)}
    /\ OldWorkspace \notin workspaces
    /\ Exists(workspaces, "default", opts.WorkspaceName)

====
